---- MODULE Spec2Model ----
(***************************************************************************)
(* Model of the property viewer's filtering and statistics pipeline:       *)
(*   - the listing page  (property-viewer/src/app/page.tsx, Home)          *)
(*   - the earlier listing page kept in the same file (first Home)         *)
(*   - the dashboard     (app/dashboard/page.tsx + components/Dashboard)   *)
(*                                                                         *)
(* Conventions                                                             *)
(*   Text      a sequence of one-character strings ("" is << >>).          *)
(*   Num       a JavaScript number in fixed point, counted in tenths       *)
(*             (100.5 is 1005, the year 2000 is 20000).                    *)
(*   Maybe x   << >> for null / undefined / NaN, << x >> for a value.      *)
(*   Tri       "true", "false", "null", and "undefined" for a flag read    *)
(*             through an absent relation (construction_info?.flag).      *)
(***************************************************************************)
EXTENDS Integers, Sequences, FiniteSets, TLC

VARIABLES
    \* ---- listing page (Home) ----
    filters,      \* useState filters (page.tsx 276)
    properties,   \* useState properties (page.tsx 271)
    loading,      \* useState loading (page.tsx 272)
    inflight,     \* fetchProperties calls awaiting the query (page.tsx 364)
    db,           \* rows of the data store the query reads
    gen,          \* number of filter changes so far
    mounted,      \* TRUE once the mount effects have run
    shownGen,     \* filter generation of the fetch whose result is displayed
    lastOutcome,  \* how the fetch that completed last ended
    \* ---- pure filter runs ----
    rows,         \* input rows of one filter run
    fspec,        \* listing-page filter specification of the run
    dspec,        \* dashboard filter specification of the run
    site,         \* call site that produced out: "none", "home", "legacy", "dashboard"
    out,          \* output of the run
    \* ---- aggregation ----
    recs,         \* the record list the statistics are computed from (properties)
    stats,        \* the statistics computed last
    aggSite,      \* who computed them: "none", "home", "dashboard"
    passes,       \* number of times they were computed from recs
    \* ---- dashboard page ----
    pc,           \* where the dashboard page's init() stands (dashboard/page.tsx 119-123)
    districts,    \* useState districts (dashboard/page.tsx 14)
    fetches       \* number of calls of the dashboard page's fetchProperties

vars == <<filters, properties, loading, inflight, db, gen, mounted, shownGen, lastOutcome,
          rows, fspec, dspec, site, out, recs, stats, aggSite, passes,
          pc, districts, fetches>>
dashVars == <<pc, districts, fetches>>
aggVars == <<recs, stats, aggSite, passes>>
homeVars == <<filters, properties, loading, inflight, db, gen, mounted, shownGen, lastOutcome>>
runVars == <<rows, fspec, dspec, site, out>>

(***************************************************************************)
(* Text and numbers                                                        *)
(***************************************************************************)
Digits == <<"0", "1", "2", "3", "4", "5", "6", "7", "8", "9">>

IsDigit(c) == \E i \in 1..Len(Digits) : Digits[i] = c

DigitVal(c) == (CHOOSE i \in 1..Len(Digits) : Digits[i] = c) - 1

IsSpace(c) == c \in {" ", "\n"}

\* a number of whole units, in tenths
Whole(n) == n * 10

RECURSIVE TrimLeft(_)
TrimLeft(t) == IF t # << >> /\ IsSpace(Head(t)) THEN TrimLeft(Tail(t)) ELSE t

RECURSIVE TrimRight(_)
TrimRight(t) ==
    IF t # << >> /\ IsSpace(t[Len(t)]) THEN TrimRight(SubSeq(t, 1, Len(t) - 1)) ELSE t

\* String.prototype.trim
Trim(t) == TrimRight(TrimLeft(t))

\* the longest prefix of t made of digits
RECURSIVE DigitRun(_)
DigitRun(t) ==
    IF t # << >> /\ IsDigit(Head(t)) THEN <<Head(t)>> \o DigitRun(Tail(t)) ELSE << >>

RECURSIVE DigitsValue(_)
DigitsValue(ds) ==
    IF ds = << >> THEN 0
    ELSE DigitsValue(SubSeq(ds, 1, Len(ds) - 1)) * 10 + DigitVal(ds[Len(ds)])

Drop(t, n) == SubSeq(t, n + 1, Len(t))

\* parseInt(text): leading white space, a sign, then the leading digits;
\* NaN (<< >>) when there is no digit. The result is a whole number.
ParseInt(t) ==
    LET s    == TrimLeft(t)
        neg  == s # << >> /\ Head(s) = "-"
        body == IF s # << >> /\ Head(s) \in {"-", "+"} THEN Tail(s) ELSE s
        ds   == DigitRun(body)
    IN  IF ds = << >> THEN << >>
        ELSE << (IF neg THEN -1 ELSE 1) * Whole(DigitsValue(ds)) >>

\* parseFloat(text): as parseInt, plus a fraction ".d"; ".5" parses as 0.5.
\* Fraction digits after the first are below the model's resolution.
ParseFloat(t) ==
    LET s    == TrimLeft(t)
        neg  == s # << >> /\ Head(s) = "-"
        body == IF s # << >> /\ Head(s) \in {"-", "+"} THEN Tail(s) ELSE s
        ds   == DigitRun(body)
        rest == Drop(body, Len(ds))
        fs   == IF rest # << >> /\ Head(rest) = "." THEN DigitRun(Tail(rest)) ELSE << >>
        frac == IF fs = << >> THEN 0 ELSE DigitVal(fs[1])
    IN  IF ds = << >> /\ fs = << >> THEN << >>
        ELSE << (IF neg THEN -1 ELSE 1) * (Whole(DigitsValue(ds)) + frac) >>

RECURSIVE NatToText(_)
NatToText(n) ==
    IF n < 10 THEN <<Digits[n + 1]>> ELSE NatToText(n \div 10) \o <<Digits[(n % 10) + 1]>>

\* Number.prototype.toString / String(n) of a Num
NumToText(v) ==
    LET a == IF v < 0 THEN -v ELSE v
        w == NatToText(a \div 10)
        f == IF a % 10 = 0 THEN << >> ELSE <<".", Digits[(a % 10) + 1]>>
    IN  (IF v < 0 THEN <<"-">> ELSE << >>) \o w \o f

\* A price column may also hold a string, <<"string", text>>, and a computed price
\* may be the number Infinity.
NumInfinity == <<"number", "Infinity">>

\* JavaScript truthiness: null, undefined, NaN, 0 and "" are falsy
Truthy(m) ==
    IF Len(m) = 0 THEN FALSE
    ELSE IF Len(m) = 1 THEN m[1] # 0
    ELSE IF m[1] = "string" THEN m[2] # << >>
    ELSE TRUE

(***************************************************************************)
(* Dates: new Date("YYYY-MM-DD") is a point on the time line; the value    *)
(* kept here is the day's index in calendar order, NaN for Invalid Date.   *)
(***************************************************************************)
ParseDate(t) ==
    IF /\ Len(t) = 10
       /\ \A i \in {1, 2, 3, 4, 6, 7, 9, 10} : IsDigit(t[i])
       /\ t[5] = "-" /\ t[8] = "-"
    THEN LET y == DigitsValue(SubSeq(t, 1, 4))
             m == DigitsValue(SubSeq(t, 6, 7))
             d == DigitsValue(SubSeq(t, 9, 10))
         IN  IF m \in 1..12 /\ d \in 1..31 THEN << (y * 12 + (m - 1)) * 31 + (d - 1) >>
             ELSE << >>
    ELSE << >>

(***************************************************************************)
(* Rows of the store and optional chaining                                 *)
(***************************************************************************)
\* the reserved id of the row that stores metadata (page.tsx 321)
MetadataId == <<"m", "e", "t", "a">>

\* property.construction_info?.year
YearOf(r) == IF r.construction_info = << >> THEN << >> ELSE r.construction_info[1].year

\* property.construction_info?.is_renovated, ?.is_furnished, ?.has_act16
RenovatedOf(r) ==
    IF r.construction_info = << >> THEN "undefined" ELSE r.construction_info[1].is_renovated

FurnishedOf(r) ==
    IF r.construction_info = << >> THEN "undefined" ELSE r.construction_info[1].is_furnished

Act16Of(r) ==
    IF r.construction_info = << >> THEN "undefined" ELSE r.construction_info[1].has_act16

\* property.construction_info?.act16_plan_date ("" and null are both falsy)
PlanDateOf(r) ==
    IF r.construction_info = << >> THEN << >> ELSE r.construction_info[1].act16_plan_date

\* property.location?.district (null, undefined and "" are all << >>)
DistrictOf(r) == IF r.location = << >> THEN << >> ELSE r.location[1].district

(***************************************************************************)
(* The store's comparison operators (PostgREST gte / lte / eq / in):       *)
(* a comparison with a null column is not true, so the row is left out.    *)
(***************************************************************************)
Gte(col, v) == col # << >> /\ col[1] >= v

Lte(col, v) == col # << >> /\ col[1] <= v

\* words of a text, split at white space
RECURSIVE Words(_)
Words(t) ==
    LET s == TrimLeft(t)
        n == IF \E i \in 1..Len(s) : IsSpace(s[i])
             THEN (CHOOSE i \in 1..Len(s) : IsSpace(s[i]) /\ \A j \in 1..(i - 1) : ~IsSpace(s[j])) - 1
             ELSE Len(s)
    IN  IF s = << >> THEN << >> ELSE <<SubSeq(s, 1, n)>> \o Words(Drop(s, n))

\* textSearch('locations.district', q, {type: 'websearch'}): every word of the
\* query is a word of the district
TextSearch(district, q) ==
    /\ district # << >>
    /\ \A i \in 1..Len(Words(q)) :
          \E j \in 1..Len(Words(district)) : Words(district)[j] = Words(q)[i]

\* text.split(',')
RECURSIVE SplitComma(_)
SplitComma(t) ==
    IF \E i \in 1..Len(t) : t[i] = ","
    THEN LET n == CHOOSE i \in 1..Len(t) : t[i] = "," /\ \A j \in 1..(i - 1) : t[j] # ","
         IN  <<SubSeq(t, 1, n - 1)>> \o SplitComma(Drop(t, n))
    ELSE <<t>>

RECURSIVE MapTrim(_)
MapTrim(ts) == IF ts = << >> THEN << >> ELSE <<Trim(Head(ts))>> \o MapTrim(Tail(ts))

NonEmpty(t) == t # << >>

\* faulty variant: the entries are not trimmed
ParseIdsNoTrim(t) == SelectSeq(SplitComma(t), NonEmpty)

\* filters.propertyIds.split(',').map(id => id.trim()).filter(id => id)
ParseIds(t) == SelectSeq(MapTrim(SplitComma(t)), NonEmpty)

InList(x, xs) == \E i \in 1..Len(xs) : xs[i] = x

(***************************************************************************)
(* Record normalizer: fetchProperties' transformedData map                 *)
(***************************************************************************)
StartsWith(t, pre) == Len(t) >= Len(pre) /\ SubSeq(t, 1, Len(pre)) = pre

\* the longest prefix of t made of digits and white space: [\d\s]*
RECURSIVE DigitSpaceRun(_)
DigitSpaceRun(t) ==
    IF t # << >> /\ (IsDigit(Head(t)) \/ IsSpace(Head(t)))
    THEN <<Head(t)>> \o DigitSpaceRun(Tail(t)) ELSE << >>

IsNotSpace(c) == ~IsSpace(c)

\* featureText.match(/(\d+[\d\s]*)\s*EUR/): group 1 of the leftmost match, << >>
\* (no match) otherwise. A match starts at a digit whose run of digits and white
\* space is directly followed by EUR.
RECURSIVE PriceMatch(_)
PriceMatch(t) ==
    IF t = << >> THEN << >>
    ELSE IF IsDigit(Head(t)) /\ StartsWith(Drop(t, Len(DigitSpaceRun(t))), <<"E", "U", "R">>)
         THEN << DigitSpaceRun(t) >>
         ELSE PriceMatch(Tail(t))

\* parseInt(priceMatch[1].replace(/\s/g, ''))
PriceOfMatch(g) == ParseInt(SelectSeq(g, IsNotSpace))

\* The area label and units. The source's label is the Cyrillic word for "area"
\* followed by a colon, its units "m2" and the Cyrillic abbreviation of "sq.m";
\* the Cyrillic letters are written here in Latin transliteration.
AreaLabel == <<"p", "l", "o", "s", "h", "t", ":">>
AreaUnits == {<<"m", "2">>, <<"k", "v", ".", "m">>}

\* the /i flag: letters compare in lower case
Lower(c) ==
    CASE c = "P" -> "p" [] c = "L" -> "l" [] c = "O" -> "o" [] c = "S" -> "s"
      [] c = "H" -> "h" [] c = "T" -> "t" [] c = "M" -> "m" [] c = "K" -> "k"
      [] c = "V" -> "v" [] c = "A" -> "a" [] c = "C" -> "c" [] OTHER -> c

LowerText(t) == [i \in 1..Len(t) |-> Lower(t[i])]

\* (\d+(?:\.\d+)?) at the head of t: the number's text, << >> when t starts with no digit
NumberRun(t) ==
    LET ds   == DigitRun(t)
        rest == Drop(t, Len(ds))
        fs   == IF rest # << >> /\ Head(rest) = "." THEN DigitRun(Tail(rest)) ELSE << >>
    IN  IF ds = << >> THEN << >>
        ELSE IF fs = << >> THEN ds ELSE ds \o <<".">> \o fs

\* featureText.match(/<label>\s*(\d+(?:\.\d+)?)\s*(?:m2|<sq.m>)/i): group 1 of the
\* leftmost match, << >> otherwise
RECURSIVE AreaMatch(_)
AreaMatch(t) ==
    IF t = << >> THEN << >>
    ELSE LET afterLabel == TrimLeft(Drop(t, Len(AreaLabel)))
             num        == NumberRun(afterLabel)
             afterNum   == LowerText(TrimLeft(Drop(afterLabel, Len(num))))
         IN  IF /\ StartsWith(LowerText(t), AreaLabel)
                /\ num # << >>
                /\ \E u \in AreaUnits : StartsWith(afterNum, u)
             THEN << num >>
             ELSE AreaMatch(Tail(t))

\* the longest prefix of t without comma or line break: [^,\n]+
RECURSIVE LeadRun(_)
LeadRun(t) ==
    IF t # << >> /\ Head(t) \notin {",", "\n"} THEN <<Head(t)>> \o LeadRun(Tail(t)) ELSE << >>

\* featureText.match(/^([^,\n]+)(?:,|\n|$)/): group 1, << >> when there is no match
DistrictMatch(t) == IF LeadRun(t) = << >> THEN << >> ELSE << LeadRun(t) >>

\* "Avoid matching long text" (featureText.length < 50)
MaxDistrictFeatureLen == 50

\* faulty variant: a feature of any length may supply the district
ScanFeatureAnyLength(acc, w) ==
    LET t  == w.feature
        pm == PriceMatch(t)
        am == AreaMatch(t)
        dm == DistrictMatch(t)
    IN  [price    |-> IF ~Truthy(acc.price) /\ pm # << >> THEN PriceOfMatch(pm[1])
                      ELSE acc.price,
         area     |-> IF ~Truthy(acc.area) /\ am # << >> THEN ParseFloat(am[1])
                      ELSE acc.area,
         district |-> IF acc.district = << >> /\ dm # << >> THEN Trim(dm[1])
                      ELSE acc.district]

\* one turn of the loop over property.features: acc = [price, area, district]
ScanFeature(acc, w) ==
    LET t  == w.feature
        pm == PriceMatch(t)
        am == AreaMatch(t)
        dm == DistrictMatch(t)
    IN  [price    |-> IF ~Truthy(acc.price) /\ pm # << >> THEN PriceOfMatch(pm[1])
                      ELSE acc.price,
         area     |-> IF ~Truthy(acc.area) /\ am # << >> THEN ParseFloat(am[1])
                      ELSE acc.area,
         district |-> IF acc.district = << >> /\ dm # << >> /\ Len(t) < MaxDistrictFeatureLen
                      THEN Trim(dm[1])
                      ELSE acc.district]

RECURSIVE ScanFeatures(_, _)
ScanFeatures(acc, ws) ==
    IF ws = << >> THEN acc ELSE ScanFeatures(ScanFeature(acc, Head(ws)), Tail(ws))

\* faulty variant: an image without position goes last
PosKeyNullLast(img) == IF img.position = << >> THEN 99 ELSE img.position[1]

\* a.position || 0
PosKey(img) == IF img.position = << >> THEN 0 ELSE img.position[1]

\* Array.prototype.sort with (a, b) => key(a) - key(b): stable, ascending
RECURSIVE InsertImage(_, _)
InsertImage(img, sorted) ==
    IF sorted = << >> THEN <<img>>
    ELSE IF PosKey(img) < PosKey(Head(sorted)) THEN <<img>> \o sorted
         ELSE <<Head(sorted)>> \o InsertImage(img, Tail(sorted))

RECURSIVE SortImages(_)
SortImages(imgs) ==
    IF imgs = << >> THEN << >>
    ELSE InsertImage(imgs[Len(imgs)], SortImages(SubSeq(imgs, 1, Len(imgs) - 1)))

\* property.features?.map(f => f.feature) || []
UnwrapFeatures(fs) == IF fs = << >> THEN << >> ELSE [i \in 1..Len(fs[1]) |-> fs[1][i].feature]

\* faulty variant: a recovered district replaces the location relation
NormalizeOverwritesLocation(r) ==
    LET start == [price |-> r.price_value, area |-> r.area_m2, district |-> DistrictOf(r)]
        found == IF r.features = << >> THEN start ELSE ScanFeatures(start, r.features[1])
    IN  [r EXCEPT !.price_value = found.price,
                  !.area_m2     = found.area,
                  !.location    = IF found.district # << >>
                                  THEN << [district |-> found.district] >>
                                  ELSE r.location,
                  !.features    = UnwrapFeatures(r.features),
                  !.images      = IF r.images = << >> THEN << >> ELSE SortImages(r.images[1])]

\* the map callback of page.tsx 380-427 and dashboard/page.tsx 60-107
Normalize(r) ==
    LET start == [price |-> r.price_value, area |-> r.area_m2, district |-> DistrictOf(r)]
        found == IF r.features = << >> THEN start ELSE ScanFeatures(start, r.features[1])
    IN  [r EXCEPT !.price_value = found.price,
                  !.area_m2     = found.area,
                  !.location    = IF r.location # << >> THEN r.location
                                  ELSE IF found.district # << >>
                                       THEN << [district |-> found.district] >>
                                       ELSE << >>,
                  !.features    = UnwrapFeatures(r.features),
                  !.images      = IF r.images = << >> THEN << >> ELSE SortImages(r.images[1])]

NormalizeAll(rs) == [i \in 1..Len(rs) |-> Normalize(rs[i])]

\* feature.feature of a feature that is a plain string
Undefined == <<"undefined">>

\* The same callback handed a record it has produced: features is an array of
\* strings, so feature.feature is undefined and the first featureText.match(...)
\* that is reached throws a TypeError; when none is reached the features are
\* mapped to undefined and the sorted images are sorted again.
NormalizeAgain(n) ==
    IF /\ n.features # << >>
       /\ (~Truthy(n.price_value) \/ ~Truthy(n.area_m2) \/ DistrictOf(n) = << >>)
    THEN [threw |-> TRUE, value |-> << >>]
    ELSE [threw |-> FALSE,
          value |-> [n EXCEPT !.features = [i \in 1..Len(n.features) |-> Undefined],
                              !.images   = SortImages(n.images)]]

(***************************************************************************)
(* Listing page: the query of fetchProperties (page.tsx 309-361)           *)
(***************************************************************************)
NotMetadata(r) == r.id # MetadataId

\* .from('properties').select(...).neq('id', 'metadata')
BaseQuery(store) == SelectSeq(store, NotMetadata)

\* if (filters.propertyIds.trim()) { ids = ...; if (ids.length > 0) query.in('id', ids) }
QueryIds(q, f) ==
    IF Trim(f.propertyIds) # << >> /\ ParseIds(f.propertyIds) # << >>
    THEN SelectSeq(q, LAMBDA r : InList(r.id, ParseIds(f.propertyIds)))
    ELSE q

\* if (filters.minPrice && !isNaN(parseInt(filters.minPrice))) query.gte('price_value', ...)
QueryMinPrice(q, f) ==
    IF f.minPrice # << >> /\ ParseInt(f.minPrice) # << >>
    THEN SelectSeq(q, LAMBDA r : Gte(r.price_value, ParseInt(f.minPrice)[1]))
    ELSE q

QueryMaxPrice(q, f) ==
    IF f.maxPrice # << >> /\ ParseInt(f.maxPrice) # << >>
    THEN SelectSeq(q, LAMBDA r : Lte(r.price_value, ParseInt(f.maxPrice)[1]))
    ELSE q

QueryMinArea(q, f) ==
    IF f.minArea # << >> /\ ParseInt(f.minArea) # << >>
    THEN SelectSeq(q, LAMBDA r : Gte(r.area_m2, ParseInt(f.minArea)[1]))
    ELSE q

QueryMaxArea(q, f) ==
    IF f.maxArea # << >> /\ ParseInt(f.maxArea) # << >>
    THEN SelectSeq(q, LAMBDA r : Lte(r.area_m2, ParseInt(f.maxArea)[1]))
    ELSE q

\* if (filters.type) query.eq('type', filters.type)
QueryType(q, f) ==
    IF f.type # "" THEN SelectSeq(q, LAMBDA r : r.type = f.type) ELSE q

\* if (filters.isPrivateSeller !== null) query.eq('is_private_seller', ...)
QuerySeller(q, f) ==
    IF f.isPrivateSeller # "null"
    THEN SelectSeq(q, LAMBDA r : r.is_private_seller = f.isPrivateSeller)
    ELSE q

\* if (filters.district && filters.district.trim()) query.textSearch(...)
QueryDistrict(q, f) ==
    IF f.district # << >> /\ Trim(f.district) # << >>
    THEN SelectSeq(q, LAMBDA r : TextSearch(DistrictOf(r), Trim(f.district)))
    ELSE q

\* the rows the awaited query returns
HomeQuery(store, f) ==
    QueryDistrict(QuerySeller(QueryType(QueryMaxArea(QueryMinArea(
        QueryMaxPrice(QueryMinPrice(QueryIds(BaseQuery(store), f), f), f), f), f), f), f), f)

(***************************************************************************)
(* Listing page: the filters applied after the query (page.tsx 429-482)    *)
(***************************************************************************)
\* the callback of the construction-year filter
HomeYearKeep(r, f) ==
    LET year == YearOf(r)
        act  == f.minYear # << >> \/ f.maxYear # << >>
    IN  IF ~Truthy(year) /\ act THEN TRUE
        ELSE IF /\ f.minYear # << >> /\ Truthy(year)
                /\ ParseInt(f.minYear) # << >> /\ year[1] < ParseInt(f.minYear)[1]
             THEN FALSE
        ELSE IF /\ f.maxYear # << >> /\ Truthy(year)
                /\ ParseInt(f.maxYear) # << >> /\ year[1] > ParseInt(f.maxYear)[1]
             THEN FALSE
        ELSE TRUE

HomeYearFilter(rs, f) ==
    IF f.minYear # << >> \/ f.maxYear # << >>
    THEN SelectSeq(rs, LAMBDA r : HomeYearKeep(r, f))
    ELSE rs

\* flag === undefined || flag === filters.<flag>
HomeFlagKeep(flag, want) == flag = "undefined" \/ flag = want

\* faulty variant: the stage runs without its "!== null" guard
HomeRenovatedFilterNoGuard(rs, f) ==
    SelectSeq(rs, LAMBDA r : HomeFlagKeep(RenovatedOf(r), f.isRenovated))

HomeRenovatedFilter(rs, f) ==
    IF f.isRenovated # "null"
    THEN SelectSeq(rs, LAMBDA r : HomeFlagKeep(RenovatedOf(r), f.isRenovated))
    ELSE rs

HomeFurnishedFilter(rs, f) ==
    IF f.isFurnished # "null"
    THEN SelectSeq(rs, LAMBDA r : HomeFlagKeep(FurnishedOf(r), f.isFurnished))
    ELSE rs

HomeAct16Filter(rs, f) ==
    IF f.hasAct16 # "null"
    THEN SelectSeq(rs, LAMBDA r : HomeFlagKeep(Act16Of(r), f.hasAct16))
    ELSE rs

\* faulty variant: the from-bound is exclusive
HomeMinDateKeepStrict(r, f) ==
    IF PlanDateOf(r) = << >> THEN TRUE
    ELSE /\ ParseDate(PlanDateOf(r)) # << >>
         /\ ParseDate(f.minAct16Date) # << >>
         /\ ParseDate(PlanDateOf(r))[1] > ParseDate(f.minAct16Date)[1]

\* if (!planDate) return true; return new Date(planDate) >= minDate
HomeMinDateKeep(r, f) ==
    IF PlanDateOf(r) = << >> THEN TRUE
    ELSE /\ ParseDate(PlanDateOf(r)) # << >>
         /\ ParseDate(f.minAct16Date) # << >>
         /\ ParseDate(PlanDateOf(r))[1] >= ParseDate(f.minAct16Date)[1]

HomeMinDateFilter(rs, f) ==
    IF f.minAct16Date # << >> THEN SelectSeq(rs, LAMBDA r : HomeMinDateKeep(r, f)) ELSE rs

HomeMaxDateKeep(r, f) ==
    IF PlanDateOf(r) = << >> THEN TRUE
    ELSE /\ ParseDate(PlanDateOf(r)) # << >>
         /\ ParseDate(f.maxAct16Date) # << >>
         /\ ParseDate(PlanDateOf(r))[1] <= ParseDate(f.maxAct16Date)[1]

HomeMaxDateFilter(rs, f) ==
    IF f.maxAct16Date # << >> THEN SelectSeq(rs, LAMBDA r : HomeMaxDateKeep(r, f)) ELSE rs

\* faulty variant: the stages form an else-if chain, the year stage ends the filtering
HomeClientFilterElseIf(rs, f) ==
    IF f.minYear # << >> \/ f.maxYear # << >>
    THEN HomeYearFilter(rs, f)
    ELSE HomeMaxDateFilter(HomeMinDateFilter(HomeAct16Filter(HomeFurnishedFilter(
             HomeRenovatedFilter(rs, f), f), f), f), f)

HomeClientFilter(rs, f) ==
    HomeMaxDateFilter(HomeMinDateFilter(HomeAct16Filter(HomeFurnishedFilter(
        HomeRenovatedFilter(HomeYearFilter(rs, f), f), f), f), f), f)

\* what fetchProperties hands to setProperties when the query returns data
HomeResult(store, f) == HomeClientFilter(NormalizeAll(HomeQuery(store, f)), f)

(***************************************************************************)
(* Dashboard: filteredProperties (components/Dashboard 29-84)              *)
(***************************************************************************)
DashboardKeep(r, d) ==
    IF d.district # << >> /\ DistrictOf(r) # d.district THEN FALSE
    ELSE IF d.propertyType # << >> /\ ~InList(r.type, d.propertyType) THEN FALSE
    ELSE IF /\ d.minYear # << >> /\ Truthy(YearOf(r))
            /\ ParseInt(d.minYear) # << >>
            /\ ParseInt(NumToText(YearOf(r)[1]))[1] < ParseInt(d.minYear)[1]
         THEN FALSE
    ELSE IF /\ d.maxYear # << >> /\ Truthy(YearOf(r))
            /\ ParseInt(d.maxYear) # << >>
            /\ ParseInt(NumToText(YearOf(r)[1]))[1] > ParseInt(d.maxYear)[1]
         THEN FALSE
    ELSE IF d.isRenovated # "null" /\ RenovatedOf(r) # d.isRenovated THEN FALSE
    ELSE IF d.isFurnished # "null" /\ FurnishedOf(r) # d.isFurnished THEN FALSE
    ELSE IF /\ d.minArea # << >> /\ Truthy(r.area_m2)
            /\ ParseFloat(d.minArea) # << >> /\ r.area_m2[1] < ParseFloat(d.minArea)[1]
         THEN FALSE
    ELSE IF /\ d.maxArea # << >> /\ Truthy(r.area_m2)
            /\ ParseFloat(d.maxArea) # << >> /\ r.area_m2[1] > ParseFloat(d.maxArea)[1]
         THEN FALSE
    ELSE IF d.isPrivateSeller # "null" /\ r.is_private_seller # d.isPrivateSeller THEN FALSE
    ELSE TRUE

DashboardFilter(rs, d) == SelectSeq(rs, LAMBDA r : DashboardKeep(r, d))

\* DashboardPage.fetchProperties: the unfiltered query, then the normalizer
DashboardResult(store) == NormalizeAll(BaseQuery(store))

(***************************************************************************)
(* Earlier listing page: fetchProperties of the first Home (page.tsx 35-133)*)
(***************************************************************************)
\* .order('price_value', { ascending: true }): ascending, null prices last
PriceBefore(a, b) == a.price_value # << >> /\ (b.price_value = << >> \/ a.price_value[1] < b.price_value[1])

RECURSIVE InsertByPrice(_, _)
InsertByPrice(r, sorted) ==
    IF sorted = << >> THEN <<r>>
    ELSE IF PriceBefore(r, Head(sorted)) THEN <<r>> \o sorted
         ELSE <<Head(sorted)>> \o InsertByPrice(r, Tail(sorted))

RECURSIVE OrderByPrice(_)
OrderByPrice(rs) ==
    IF rs = << >> THEN << >>
    ELSE InsertByPrice(rs[Len(rs)], OrderByPrice(SubSeq(rs, 1, Len(rs) - 1)))

\* the number inputs of the earlier page hold "" or a numeral (page.tsx 146-201)
IsNumeral(t) == t = << >> \/ ParseInt(t) # << >>

\* if (filters.minPrice) query.gte('price_value', parseInt(filters.minPrice)), ...
LegacyQuery(store, f) ==
    LET q0 == OrderByPrice(BaseQuery(store))
        q1 == IF f.minPrice # << >>
              THEN SelectSeq(q0, LAMBDA r : Gte(r.price_value, ParseInt(f.minPrice)[1])) ELSE q0
        q2 == IF f.maxPrice # << >>
              THEN SelectSeq(q1, LAMBDA r : Lte(r.price_value, ParseInt(f.maxPrice)[1])) ELSE q1
        q3 == IF f.minArea # << >>
              THEN SelectSeq(q2, LAMBDA r : Gte(r.area_m2, ParseInt(f.minArea)[1])) ELSE q2
        q4 == IF f.maxArea # << >>
              THEN SelectSeq(q3, LAMBDA r : Lte(r.area_m2, ParseInt(f.maxArea)[1])) ELSE q3
        q5 == IF f.type # "" THEN SelectSeq(q4, LAMBDA r : r.type = f.type) ELSE q4
    IN  QueryDistrict(q5, f)

\* the map callback of page.tsx 103-109: no fallback extraction
LegacyTransform(r) ==
    [r EXCEPT !.features = UnwrapFeatures(r.features),
              !.images   = IF r.images = << >> THEN << >> ELSE SortImages(r.images[1])]

\* the callback of the construction-year filter (page.tsx 114-122)
LegacyYearKeep(r, f) ==
    LET year == YearOf(r)
    IN  IF ~Truthy(year) THEN FALSE
        ELSE IF /\ f.minYear # << >> /\ ParseInt(f.minYear) # << >>
                /\ year[1] < ParseInt(f.minYear)[1]
             THEN FALSE
        ELSE IF /\ f.maxYear # << >> /\ ParseInt(f.maxYear) # << >>
                /\ year[1] > ParseInt(f.maxYear)[1]
             THEN FALSE
        ELSE TRUE

LegacyResult(store, f) ==
    LET data == LegacyQuery(store, f)
        tr   == [i \in 1..Len(data) |-> LegacyTransform(data[i])]
    IN  IF f.minYear # << >> \/ f.maxYear # << >>
        THEN SelectSeq(tr, LAMBDA r : LegacyYearKeep(r, f))
        ELSE tr

(***************************************************************************)
(* Aggregator: validProperties and the averages                            *)
(* (page.tsx 493-612 fetchMarketStats, components/Dashboard 86-229).       *)
(* A statistic is a JavaScript number kept as a fraction [n, d] in lowest  *)
(* terms, d = 0 for Infinity; rounding errors of floating point are not    *)
(* modelled.                                                               *)
(***************************************************************************)
InfinityText == <<"I", "n", "f", "i", "n", "i", "t", "y">>

\* typeof p.price_value === 'string' ? parseFloat(p.price_value) : p.price_value
\* (parseFloat also reads the literal Infinity)
CoercePrice(m) ==
    IF Len(m) = 2 /\ m[1] = "string"
    THEN IF StartsWith(TrimLeft(m[2]), InfinityText) THEN NumInfinity ELSE ParseFloat(m[2])
    ELSE m

\* p.location?.district?.match(/^20\d{2}/)
DistrictLooksLikeYear(r) ==
    LET d == DistrictOf(r)
    IN  Len(d) >= 4 /\ d[1] = "2" /\ d[2] = "0" /\ IsDigit(d[3]) /\ IsDigit(d[4])

\* faulty variant: the district is not looked at
HasValidPriceAnyDistrict(r) ==
    LET price == CoercePrice(r.price_value)
    IN  Truthy(price) /\ (price = NumInfinity \/ price[1] > 0)

\* price && price > 0 && !isNaN(price) && !districtLooksLikeYear
HasValidPrice(r) ==
    LET price == CoercePrice(r.price_value)
    IN  /\ Truthy(price)
        /\ (price = NumInfinity \/ price[1] > 0)
        /\ ~DistrictLooksLikeYear(r)

\* if (hasValidPrice) p.price_value = price
StoreConverted(r) ==
    IF HasValidPrice(r) THEN [r EXCEPT !.price_value = CoercePrice(r.price_value)] ELSE r

\* faulty variant: the list itself is reordered, the valid records first
ConvertedListValidFirst(ps) ==
    LET conv == [i \in 1..Len(ps) |-> StoreConverted(ps[i])]
    IN  SelectSeq(conv, HasValidPrice) \o SelectSeq(conv, LAMBDA r : ~HasValidPrice(r))

\* the records of the list after the validProperties callback has visited them
ConvertedList(ps) == [i \in 1..Len(ps) |-> StoreConverted(ps[i])]

RECURSIVE GCD(_, _)
GCD(a, b) == IF b = 0 THEN a ELSE GCD(b, a % b)

\* the fraction n / d (d > 0) in lowest terms
Rat(n, d) ==
    LET g == GCD(IF n < 0 THEN -n ELSE n, d)
    IN  [n |-> n \div g, d |-> d \div g]

Infinity == [n |-> 1, d |-> 0]

Zero == [n |-> 0, d |-> 1]

\* a + b
Plus(a, b) == IF a.d = 0 \/ b.d = 0 THEN Infinity ELSE Rat(a.n * b.d + b.n * a.d, a.d * b.d)

\* a / k for a count k > 0
Over(a, k) == IF a.d = 0 THEN Infinity ELSE Rat(a.n, a.d * k)

\* a > b
Greater(a, b) == IF a.d = 0 THEN b.d # 0 ELSE b.d # 0 /\ a.n * b.d > b.n * a.d

\* Math.round: the nearest whole number, halves upwards
MathRound(a) == IF a.d = 0 THEN Infinity ELSE Rat((2 * a.n + a.d) \div (2 * a.d), 1)

\* p.price_value of a valid record, as a number of units
PriceNumber(r) == IF r.price_value = NumInfinity THEN Infinity ELSE Rat(r.price_value[1], 10)

\* p.price_value / (p.area_m2 || 1)
PricePerArea(r) ==
    IF r.price_value = NumInfinity THEN Infinity
    ELSE Rat(r.price_value[1], IF Truthy(r.area_m2) THEN r.area_m2[1] ELSE 10)

\* reduce((sum, x) => sum + x, 0)
RECURSIVE SumOf(_)
SumOf(xs) == IF xs = << >> THEN Zero ELSE Plus(SumOf(SubSeq(xs, 1, Len(xs) - 1)), xs[Len(xs)])

\* list.length > 0 ? sum / list.length : 0
Average(xs) == IF Len(xs) > 0 THEN Over(SumOf(xs), Len(xs)) ELSE Zero

Prices(ps) == [i \in 1..Len(ps) |-> PriceNumber(ps[i])]

\* .sort((a, b) => (b.price_value || 0) - (a.price_value || 0)): descending, stable
RECURSIVE InsertByPriceDesc(_, _)
InsertByPriceDesc(r, sorted) ==
    IF sorted = << >> THEN <<r>>
    ELSE IF Greater(PriceNumber(r), PriceNumber(Head(sorted))) THEN <<r>> \o sorted
         ELSE <<Head(sorted)>> \o InsertByPriceDesc(r, Tail(sorted))

RECURSIVE SortByPriceDesc(_)
SortByPriceDesc(rs) ==
    IF rs = << >> THEN << >>
    ELSE InsertByPriceDesc(rs[Len(rs)], SortByPriceDesc(SubSeq(rs, 1, Len(rs) - 1)))

\* validProperties: the filter's new array, then sorted in place
ValidProperties(ps) == SortByPriceDesc(SelectSeq(ConvertedList(ps), HasValidPrice))

\* p.area_m2 && p.area_m2 > 0 && !isNaN(p.area_m2)
HasArea(r) == Truthy(r.area_m2) /\ r.area_m2[1] > 0

\* faulty variant: the valid records are not narrowed to those with an area
ValidPropertiesWithAreaUnfiltered(ps) == ValidProperties(ps)

ValidPropertiesWithArea(ps) == SelectSeq(ValidProperties(ps), HasArea)

PropertiesWithAct16(ps) == SelectSeq(ValidProperties(ps), LAMBDA r : Act16Of(r) = "true")

PropertiesWithoutAct16(ps) == SelectSeq(ValidProperties(ps), LAMBDA r : Act16Of(r) = "false")

RenovatedProperties(ps) == SelectSeq(ValidProperties(ps), LAMBDA r : RenovatedOf(r) = "true")

PricesPerArea(ps) == [i \in 1..Len(ps) |-> PricePerArea(ps[i])]

\* the initial useState value of marketStats (page.tsx 293-300)
InitialMarketStats ==
    [totalProperties |-> 0, avgPrice |-> Zero, avgPricePerM2 |-> Zero,
     avgPriceWithAct16 |-> Zero, avgPriceWithoutAct16 |-> Zero, avgPriceRenovated |-> Zero]

\* faulty variant: Math.floor in place of Math.round
RoundedAverageFloor(xs) ==
    IF Len(xs) > 0
    THEN LET a == Over(SumOf(xs), Len(xs))
         IN  IF a.d = 0 THEN Infinity ELSE Rat(a.n \div a.d, 1)
    ELSE Zero

\* list.length > 0 ? Math.round(sum / list.length) : 0
RoundedAverage(xs) == IF Len(xs) > 0 THEN MathRound(Over(SumOf(xs), Len(xs))) ELSE Zero

\* what fetchMarketStats hands to setMarketStats (page.tsx 601-608)
HomeMarketStats(ps) ==
    [totalProperties      |-> Len(ValidProperties(ps)),
     avgPrice             |-> RoundedAverage(Prices(ValidProperties(ps))),
     avgPricePerM2        |-> RoundedAverage(PricesPerArea(ValidPropertiesWithArea(ps))),
     avgPriceWithAct16    |-> RoundedAverage(Prices(PropertiesWithAct16(ps))),
     avgPriceWithoutAct16 |-> RoundedAverage(Prices(PropertiesWithoutAct16(ps))),
     avgPriceRenovated    |-> RoundedAverage(Prices(RenovatedProperties(ps)))]

\* Math.min(a, b), Math.max(a, b)
MathMin(a, b) == IF Greater(a, b) THEN b ELSE a

MathMax(a, b) == IF Greater(b, a) THEN b ELSE a

\* one turn of the propertyTypeStats reduce; acc lists the entries in insertion order
AddToType(acc, p) ==
    IF p.type = "" THEN acc
    ELSE IF \E i \in 1..Len(acc) : acc[i].type = p.type
         THEN [i \in 1..Len(acc) |->
                  IF acc[i].type = p.type
                  THEN [type  |-> acc[i].type,
                        count |-> acc[i].count + 1,
                        sum   |-> Plus(acc[i].sum, PriceNumber(p)),
                        min   |-> MathMin(acc[i].min, PriceNumber(p)),
                        max   |-> MathMax(acc[i].max, PriceNumber(p))]
                  ELSE acc[i]]
         ELSE Append(acc, [type |-> p.type, count |-> 1, sum |-> PriceNumber(p),
                           min |-> PriceNumber(p), max |-> PriceNumber(p)])

RECURSIVE PropertyTypeStats(_)
PropertyTypeStats(valid) ==
    IF valid = << >> THEN << >>
    ELSE AddToType(PropertyTypeStats(SubSeq(valid, 1, Len(valid) - 1)), valid[Len(valid)])

\* faulty variant: an entry goes before the entries of the same count
RECURSIVE InsertByCountDescUnstable(_, _)
InsertByCountDescUnstable(e, sorted) ==
    IF sorted = << >> THEN <<e>>
    ELSE IF e.count >= Head(sorted).count THEN <<e>> \o sorted
         ELSE <<Head(sorted)>> \o InsertByCountDescUnstable(e, Tail(sorted))

\* .sort((a, b) => b.count - a.count): descending, stable
RECURSIVE InsertByCountDesc(_, _)
InsertByCountDesc(e, sorted) ==
    IF sorted = << >> THEN <<e>>
    ELSE IF e.count > Head(sorted).count THEN <<e>> \o sorted
         ELSE <<Head(sorted)>> \o InsertByCountDesc(e, Tail(sorted))

RECURSIVE SortByCountDesc(_)
SortByCountDesc(es) ==
    IF es = << >> THEN << >>
    ELSE InsertByCountDesc(es[Len(es)], SortByCountDesc(SubSeq(es, 1, Len(es) - 1)))

\* Object.entries(propertyTypeStats).map(...).sort(...)
PropertyTypeStatsArray(valid) ==
    LET acc == PropertyTypeStats(valid)
    IN  SortByCountDesc([i \in 1..Len(acc) |->
            [type |-> acc[i].type, count |-> acc[i].count,
             average |-> Over(acc[i].sum, acc[i].count),
             min |-> acc[i].min, max |-> acc[i].max]])

\* no statistics computed yet
AggIdle == recs = << >> /\ stats = InitialMarketStats /\ aggSite = "none" /\ passes = 0

\* the numbers the Dashboard component renders from its filtered list
DashboardStats(fps) ==
    [validCount               |-> Len(ValidProperties(fps)),
     averagePrice             |-> Average(Prices(ValidProperties(fps))),
     averagePricePerSqm       |-> Average(PricesPerArea(ValidPropertiesWithArea(fps))),
     averagePriceWithAct16    |-> Average(Prices(PropertiesWithAct16(fps))),
     averagePriceWithoutAct16 |-> Average(Prices(PropertiesWithoutAct16(fps))),
     averagePriceRenovated    |-> Average(Prices(RenovatedProperties(fps))),
     propertyTypeStatsArray   |-> PropertyTypeStatsArray(ValidProperties(fps))]

(***************************************************************************)
(* Inputs of the model: rows of the store and filter specifications        *)
(***************************************************************************)
Lozenets  == <<"L", "o", "z", "e", "n", "e", "t", "s">>
Lozenets2 == <<"L", "o", "z", "e", "n", "e", "t", "s", " ", "2">>
Mladost   == <<"M", "l", "a", "d", "o", "s", "t">>
Sofia     == <<"S", "o", "f", "i", "a">>

Date20250630 == <<"2", "0", "2", "5", "-", "0", "6", "-", "3", "0">>
Date20260115 == <<"2", "0", "2", "6", "-", "0", "1", "-", "1", "5">>
Date20260101 == <<"2", "0", "2", "6", "-", "0", "1", "-", "0", "1">>

NoFlags == [year |-> << >>, is_renovated |-> "null", is_furnished |-> "null",
            has_act16 |-> "null", act16_plan_date |-> << >>]

Image(url, pos) == [url |-> url, storage_url |-> "", position |-> pos]

RowA == [id |-> <<"a">>, type |-> "flat", price_value |-> <<1005>>, area_m2 |-> <<Whole(50)>>,
         is_private_seller |-> "true",
         location |-> << [city |-> Sofia, district |-> Lozenets] >>,
         construction_info |-> << [NoFlags EXCEPT !.year = <<Whole(2000)>>,
                                   !.is_renovated = "true", !.is_furnished = "true",
                                   !.has_act16 = "true"] >>,
         features |-> << << >> >>,
         images |-> << <<Image("u3", <<3>>), Image("u0", << >>), Image("u1", <<1>>),
                          Image("uz", <<0>>)>> >>]

RowB == [id |-> <<"b">>, type |-> "house", price_value |-> <<Whole(200)>>, area_m2 |-> << >>,
         is_private_seller |-> "false",
         location |-> << [city |-> Sofia, district |-> Lozenets2] >>,
         construction_info |-> << [NoFlags EXCEPT !.is_renovated = "false",
                                   !.has_act16 = "false",
                                   !.act16_plan_date = Date20250630] >>,
         features |-> << << [feature |-> <<"B", "r", "i", "c", "k">>] >> >>,
         images |-> << >>]

RowC == [id |-> <<"c">>, type |-> "flat", price_value |-> << >>, area_m2 |-> <<855>>,
         is_private_seller |-> "null",
         location |-> << >>,
         construction_info |-> << >>,
         features |-> << << [feature |-> <<"M", "l", "a", "d", "o", "s", "t", ",", " ", "S", "o", "f", "i", "a">>], [feature |-> <<"1", "2", "0", " ", "0", "0", "0", " ", "E", "U", "R">>] >> >>,
         images |-> << << >> >>]

RowD == [id |-> <<"d">>, type |-> "house", price_value |-> <<Whole(300)>>, area_m2 |-> << >>,
         is_private_seller |-> "true",
         location |-> << [city |-> Sofia, district |-> Mladost] >>,
         construction_info |-> << [NoFlags EXCEPT !.year = <<Whole(2010)>>,
                                   !.is_furnished = "false",
                                   !.act16_plan_date = Date20260115] >>,
         features |-> << << [feature |-> <<"P", "l", "o", "s", "h", "t", ":", " ", "9", "0", ".", "5", " ", "k", "v", ".", "m">>] >> >>,
         images |-> << <<Image("u2", <<2>>), Image("u1", <<1>>)>> >>]

\* the row the scraper keeps its metadata in
RowMeta == [id |-> MetadataId, type |-> "", price_value |-> << >>, area_m2 |-> << >>,
            is_private_seller |-> "null", location |-> << >>, construction_info |-> << >>,
            features |-> << >>, images |-> << >>]

Rows == {RowA, RowB, RowC, RowD, RowMeta}

\* rows for the statistics: a price kept as a string, a district that is a year,
\* and prices that are zero, negative, not a number, or the text Infinity
Year2024 == <<"2", "0", "2", "4">>

PlainRow(id, type, price, area, district) ==
    [id |-> id, type |-> type, price_value |-> price, area_m2 |-> area,
     is_private_seller |-> "null",
     location |-> << [city |-> Sofia, district |-> district] >>,
     construction_info |-> << >>, features |-> << << >> >>, images |-> << >>]

RowS == [PlainRow(<<"s">>, "", <<"string", <<"2", "5", "0", ".", "5">>>>, <<Whole(50)>>, Lozenets)
            EXCEPT !.construction_info = << [NoFlags EXCEPT !.is_renovated = "true",
                                                            !.has_act16 = "true"] >>]

RowY == PlainRow(<<"y">>, "flat", <<Whole(200)>>, << >>, Year2024)

RowZ == PlainRow(<<"z">>, "house", <<0>>, <<Whole(40)>>, Mladost)

RowN == PlainRow(<<"n">>, "flat", <<"string", <<"a", "b", "c">>>>, <<0>>, Mladost)

RowNeg == PlainRow(<<"g">>, "house", <<Whole(-50)>>, <<Whole(40)>>, Lozenets)

RowInf == PlainRow(<<"i">>, "house", <<"string", InfinityText>>, <<Whole(50)>>, Lozenets)

RowT == PlainRow(<<"t">>, "house", <<Whole(300)>>, <<Whole(40)>>, Mladost)

AggRows == {RowA, RowB, RowT, RowS, RowY, RowZ, RowN, RowNeg, RowInf}

\* most rows of a store the statistics are computed from
MaxAggRows == 3

AggStores ==
    {l \in UNION {[1..n -> AggRows] : n \in 0..MaxAggRows} :
        \A i, j \in 1..Len(l) : i # j => l[i] # l[j]}

\* most computations of the statistics from one list
MaxPasses == 2

\* most rows of a store in one run
MaxRows == 2

\* lists of distinct rows
RowLists ==
    {l \in UNION {[1..n -> Rows] : n \in 0..MaxRows} :
        \A i, j \in 1..Len(l) : i # j => l[i] # l[j]}

\* the initial useState value of filters (page.tsx 276-292)
HomeEmpty ==
    [minPrice |-> << >>, maxPrice |-> << >>, minArea |-> << >>, maxArea |-> << >>,
     district |-> << >>, type |-> "", minYear |-> << >>, maxYear |-> << >>,
     isPrivateSeller |-> "null", isRenovated |-> "null", isFurnished |-> "null",
     hasAct16 |-> "null", minAct16Date |-> << >>, maxAct16Date |-> << >>,
     propertyIds |-> << >>]

\* the initial useState value of dashboardFilters (dashboard/page.tsx 15-25)
DashEmpty ==
    [district |-> << >>, minYear |-> << >>, maxYear |-> << >>, isRenovated |-> "null",
     isFurnished |-> "null", minArea |-> << >>, maxArea |-> << >>,
     isPrivateSeller |-> "null", propertyType |-> << >>]

PriceTexts == {NumToText(r.price_value[1]) : r \in {x \in Rows : x.price_value # << >>}}

\* one edit of one control: <<field, value>>
HomeEdits ==
    ({"minPrice", "maxPrice"} \X (PriceTexts \cup {<<"a", "b", "c">>}))
    \cup ({"minPrice"} \X {<<"1", "5", "0", "a">>})
    \cup ({"minArea", "maxArea"} \X {<<"5", "0">>, <<"8", "5", ".", "5">>})
    \cup ({"maxArea"} \X {<<"a", "b", "c">>})
    \cup ({"minYear", "maxYear"} \X {<<"2", "0", "0", "0">>, <<"2", "0", "0", "5">>})
    \cup ({"minYear"} \X {<<"a", "b", "c">>})
    \cup ({"district"} \X {Lozenets, Mladost})
    \cup ({"type"} \X {"flat"})
    \cup ({"isPrivateSeller", "isRenovated", "isFurnished", "hasAct16"} \X {"true", "false"})
    \cup ({"minAct16Date", "maxAct16Date"} \X {Date20250630, Date20260101})
    \cup ({"propertyIds"} \X {<<"a", ",", " ", "c">>, <<" ", ",", " ">>, <<" ">>})

DashEdits ==
    ({"district"} \X {Lozenets, Mladost})
    \cup ({"minYear", "maxYear"} \X {<<"2", "0", "0", "0">>, <<"2", "0", "0", "5">>})
    \cup ({"isRenovated", "isFurnished", "isPrivateSeller"} \X {"true", "false"})
    \cup ({"minArea", "maxArea"} \X {<<"5", "0">>, <<"8", "5", ".", "5">>})
    \cup ({"minYear", "minArea"} \X {<<"a", "b", "c">>})
    \cup ({"maxYear"} \X {<<"2", "0", "0", "5", "a">>})
    \cup ({"propertyType"} \X {<<"flat">>, <<"house", "flat">>})

\* setFilters({ ...filters, [field]: value })
Edit(f, e) == [f EXCEPT ![e[1]] = e[2]]

\* filter specifications with at most two controls set; a run is of the listing
\* pages (dspec untouched) or of the dashboard (fspec untouched)
HomeSpecs == {HomeEmpty} \cup {Edit(Edit(HomeEmpty, a), b) : a \in HomeEdits, b \in HomeEdits}

DashSpecs == {DashEmpty} \cup {Edit(Edit(DashEmpty, a), b) : a \in DashEdits, b \in DashEdits}

(***************************************************************************)
(* Filter runs: one store, one filter specification, one call site         *)
(***************************************************************************)
\* the dashboard page before it is mounted (dashboard/page.tsx 12-14)
DashIdle == pc = "unmounted" /\ districts = {} /\ fetches = 0

HomeIdle ==
    /\ filters = HomeEmpty /\ properties = << >> /\ loading = TRUE
    /\ inflight = << >> /\ db = << >> /\ gen = 0 /\ mounted = FALSE
    /\ shownGen = -1 /\ lastOutcome = "none"

InitRun ==
    /\ HomeIdle
    /\ DashIdle
    /\ AggIdle
    /\ rows \in RowLists
    /\ \/ fspec \in HomeSpecs /\ dspec = DashEmpty
       \/ fspec = HomeEmpty /\ dspec \in DashSpecs
    /\ site = "none"
    /\ out = << >>

\* the listing page fetches the store under fspec
RunHome ==
    /\ site = "none"
    /\ dspec = DashEmpty
    /\ site' = "home"
    /\ out' = HomeResult(rows, fspec)
    /\ UNCHANGED <<rows, fspec, dspec>>
    /\ UNCHANGED homeVars
    /\ UNCHANGED dashVars
    /\ UNCHANGED aggVars

\* the earlier listing page fetches the store under fspec
RunLegacy ==
    /\ site = "none"
    /\ dspec = DashEmpty
    /\ \A k \in {"minPrice", "maxPrice", "minArea", "maxArea"} : IsNumeral(fspec[k])
    /\ site' = "legacy"
    /\ out' = LegacyResult(rows, fspec)
    /\ UNCHANGED <<rows, fspec, dspec>>
    /\ UNCHANGED homeVars
    /\ UNCHANGED dashVars
    /\ UNCHANGED aggVars

\* the dashboard page fetches the store, the dashboard filters it under dspec
RunDashboard ==
    /\ site = "none"
    /\ fspec = HomeEmpty
    /\ site' = "dashboard"
    /\ out' = DashboardFilter(DashboardResult(rows), dspec)
    /\ UNCHANGED <<rows, fspec, dspec>>
    /\ UNCHANGED homeVars
    /\ UNCHANGED dashVars
    /\ UNCHANGED aggVars

\* the normalizer applied to each fetched row, and again to what it returned
NormalizeTwice ==
    /\ site = "none"
    /\ fspec = HomeEmpty
    /\ dspec = DashEmpty
    /\ site' = "twice"
    /\ out' = [i \in 1..Len(BaseQuery(rows)) |-> NormalizeAgain(Normalize(BaseQuery(rows)[i]))]
    /\ UNCHANGED <<rows, fspec, dspec>>
    /\ UNCHANGED homeVars
    /\ UNCHANGED dashVars
    /\ UNCHANGED aggVars

NextRun == RunHome \/ RunLegacy \/ RunDashboard \/ NormalizeTwice

SpecRun == InitRun /\ [][NextRun]_vars

(***************************************************************************)
(* Normalizer runs: one fetched row, normalized at one call site           *)
(***************************************************************************)
\* feature texts: prices written with and without a grouping space, a room count
\* before a price
\* on one line and on the line above, a zero price, a district line, areas, a plain word
FeatPriceGrouped == <<"1", "2", "0", " ", "0", "0", "0", " ", "E", "U", "R">>
FeatPricePlain == <<"1", "2", "0", "0", "0", "0", " ", "E", "U", "R">>
FeatTwoNumbers == <<"2", " ", "5", "0", " ", "E", "U", "R">>
FeatTwoLines == <<"2", "\n", "5", "0", "0", " ", "E", "U", "R">>
FeatZeroPrice == <<"0", " ", "E", "U", "R">>
FeatDistrict == <<"M", "l", "a", "d", "o", "s", "t", ",", " ", "S", "o", "f", "i", "a">>
FeatArea == <<"P", "l", "o", "s", "h", "t", ":", " ", "9", "0", ".", "5", " ", "k", "v", ".", "m">>
FeatZeroArea == <<"P", "l", "o", "s", "h", "t", ":", " ", "0", " ", "m", "2">>
FeatBrick == <<"B", "r", "i", "c", "k">>

\* a district line as long as the length limit, and one a character shorter
Padding(n) == [i \in 1..n |-> "x"]
FeatLong      == Lozenets \o <<",">> \o Padding(MaxDistrictFeatureLen - Len(Lozenets) - 1)
FeatAlmostLong == Lozenets2 \o <<",">> \o Padding(MaxDistrictFeatureLen - Len(Lozenets2) - 2)

FeatureTexts ==
    {FeatPriceGrouped, FeatPricePlain, FeatTwoNumbers, FeatTwoLines, FeatZeroPrice, FeatDistrict,
     FeatArea, FeatZeroArea, FeatBrick, FeatLong, FeatAlmostLong}

\* most features of a fetched row
MaxFeatures == 2

\* features:features(feature): null, or a list of {feature: text}
FeatureLists ==
    {<< >>} \cup
    {<< [i \in 1..Len(l) |-> [feature |-> l[i]]] >> :
        l \in UNION {[1..k -> FeatureTexts] : k \in 0..MaxFeatures}}

\* fetched rows: price and area missing, zero or set; the location relation
\* missing, without district, or complete
NormRows ==
    {[id |-> <<"r">>, type |-> "flat", price_value |-> p, area_m2 |-> a,
      is_private_seller |-> "null", location |-> l, construction_info |-> << >>,
      features |-> fs, images |-> << >>] :
        p \in {<< >>, <<0>>, <<Whole(500)>>},
        a \in {<< >>, <<0>>, <<Whole(50)>>},
        l \in {<< >>, << [city |-> Sofia, district |-> << >>] >>,
               << [city |-> Sofia, district |-> Lozenets] >>},
        fs \in FeatureLists}

InitNorm ==
    /\ HomeIdle
    /\ DashIdle
    /\ AggIdle
    /\ \E r \in NormRows : rows = <<r>>
    /\ fspec = HomeEmpty
    /\ dspec = DashEmpty
    /\ site = "none"
    /\ out = << >>

\* the listing page's fetchProperties maps the fetched rows
NormalizeHome ==
    /\ site = "none"
    /\ site' = "home"
    /\ out' = NormalizeAll(rows)
    /\ UNCHANGED <<rows, fspec, dspec>>
    /\ UNCHANGED homeVars
    /\ UNCHANGED dashVars
    /\ UNCHANGED aggVars

\* the dashboard page's fetchProperties maps the fetched rows
NormalizeDashboard ==
    /\ site = "none"
    /\ site' = "dashboard"
    /\ out' = NormalizeAll(rows)
    /\ UNCHANGED <<rows, fspec, dspec>>
    /\ UNCHANGED homeVars
    /\ UNCHANGED dashVars
    /\ UNCHANGED aggVars

NextNorm == NormalizeHome \/ NormalizeDashboard

SpecNorm == InitNorm /\ [][NextNorm]_vars

(***************************************************************************)
(* Statistics runs: one fetched list, its statistics computed once or more *)
(***************************************************************************)
\* the dashboard filters the statistics are computed under
AggDashSpecs == {DashEmpty, Edit(DashEmpty, <<"isRenovated", "true">>)}

InitAgg ==
    /\ HomeIdle
    /\ DashIdle
    /\ rows = << >> /\ fspec = HomeEmpty /\ site = "none" /\ out = << >>
    /\ dspec \in AggDashSpecs
    /\ recs \in {NormalizeAll(BaseQuery(l)) : l \in AggStores}
    /\ stats = InitialMarketStats
    /\ aggSite = "none"
    /\ passes = 0

\* fetchMarketStats of the listing page on its properties (page.tsx 493-612)
FetchMarketStats ==
    /\ aggSite \in {"none", "home"}
    /\ dspec = DashEmpty
    /\ passes < MaxPasses
    /\ recs' = ConvertedList(recs)
    /\ stats' = HomeMarketStats(recs)
    /\ aggSite' = "home"
    /\ passes' = passes + 1
    /\ UNCHANGED homeVars
    /\ UNCHANGED dashVars
    /\ UNCHANGED runVars

\* one render of the Dashboard component: it filters its properties and computes
\* the statistics of the filtered list; the records it visits keep the converted
\* price (components/Dashboard 29-229)
RenderDashboard ==
    /\ aggSite \in {"none", "dashboard"}
    /\ passes < MaxPasses
    /\ recs' = [i \in 1..Len(recs) |->
                    IF DashboardKeep(recs[i], dspec) THEN StoreConverted(recs[i]) ELSE recs[i]]
    /\ stats' = DashboardStats(DashboardFilter(recs, dspec))
    /\ aggSite' = "dashboard"
    /\ passes' = passes + 1
    /\ UNCHANGED homeVars
    /\ UNCHANGED dashVars
    /\ UNCHANGED runVars

NextAgg == FetchMarketStats \/ RenderDashboard

SpecAgg == InitAgg /\ [][NextAgg]_vars

(***************************************************************************)
(* Listing page as a state machine: state, effects and fetchProperties     *)
(***************************************************************************)
RunIdle ==
    /\ rows = << >> /\ fspec = HomeEmpty /\ dspec = DashEmpty /\ site = "none" /\ out = << >>

\* most filter changes in one behaviour
MaxChanges == 2

\* the controls the user works in these behaviours
UiEdits == {e \in HomeEdits : e[1] \in {"type", "isRenovated"} /\ e[2] \in {"flat", "true"}}

\* stores the page may face
Stores == {<<RowA, RowB>>, <<RowC, RowA, RowMeta>>}

\* faulty variant: the callback closes over the filters of the first render
CallUnderInitialFilters(g, f) == [g |-> g, f |-> HomeEmpty]

\* a call of fetchProperties up to its await: the closure's filters and their generation
Call(g, f) == [g |-> g, f |-> f]

RemoveAt(q, i) == SubSeq(q, 1, i - 1) \o SubSeq(q, i + 1, Len(q))

\* the state after useState (page.tsx 271-301), before any effect has run
Init ==
    /\ RunIdle
    /\ DashIdle
    /\ AggIdle
    /\ filters = HomeEmpty
    /\ properties = << >>
    /\ loading = TRUE
    /\ inflight = << >>
    /\ db \in Stores
    /\ gen = 0
    /\ mounted = FALSE
    /\ shownGen = -1
    /\ lastOutcome = "none"

\* the effects of the first render (page.tsx 614-628): the mount effect and the
\* filter effect each call fetchProperties, which sets loading and issues its query;
\* the mount effect and the statistics effect call fetchMarketStats on the empty list
Mount ==
    /\ ~mounted
    /\ mounted' = TRUE
    /\ loading' = TRUE
    /\ inflight' = inflight \o <<Call(gen, filters), Call(gen, filters)>>
    /\ stats' = HomeMarketStats(properties)
    /\ UNCHANGED <<filters, properties, db, gen, shownGen, lastOutcome>>
    /\ UNCHANGED runVars
    /\ UNCHANGED dashVars
    /\ UNCHANGED <<recs, aggSite, passes>>

\* the effects after a render with new filters: fetchProperties is a new callback
\* (deps [filters]), so the mount effect and the filter effect both run again
AfterFilterChange(f) ==
    /\ filters' = f
    /\ gen' = gen + 1
    /\ loading' = TRUE
    /\ inflight' = inflight \o <<Call(gen + 1, f), Call(gen + 1, f)>>
    /\ UNCHANGED <<properties, db, mounted, shownGen, lastOutcome>>
    /\ UNCHANGED runVars
    /\ UNCHANGED dashVars
    /\ UNCHANGED aggVars

\* onChange of one control: setFilters({ ...filters, [field]: value })
ChangeFilter ==
    /\ mounted
    /\ gen < MaxChanges
    /\ \E e \in UiEdits :
          /\ Edit(filters, e) # filters
          /\ AfterFilterChange(Edit(filters, e))

\* onClick of "Clear all filters" (page.tsx 927-944): a new object in any case
ClearFilters ==
    /\ mounted
    /\ gen < MaxChanges
    /\ AfterFilterChange(HomeEmpty)

\* setProperties(list) and, in finally, setLoading(false); the render that follows
\* has a new properties array, hence a new fetchMarketStats (deps [properties]),
\* hence the mount effect runs again and calls fetchProperties under the filters
\* of that render (page.tsx 485, 489, 612, 614-618); the same effect and the
\* statistics effect call fetchMarketStats, which computes the statistics of the
\* new list and stores converted prices in its records (page.tsx 493-612, 625-628)
StoreResult(i, list) ==
    /\ properties' = ConvertedList(list)
    /\ stats' = HomeMarketStats(list)
    /\ shownGen' = inflight[i].g
    /\ loading' = TRUE
    /\ inflight' = RemoveAt(inflight, i) \o <<Call(gen, filters)>>

\* the awaited query of call i returns rows (page.tsx 364, 377-485)
FetchData ==
    \E i \in 1..Len(inflight) :
        /\ StoreResult(i, HomeResult(db, inflight[i].f))
        /\ lastOutcome' = "data"
        /\ UNCHANGED <<filters, db, gen, mounted>>
        /\ UNCHANGED runVars
        /\ UNCHANGED dashVars
        /\ UNCHANGED <<recs, aggSite, passes>>

\* the awaited query of call i returns neither rows nor an error (page.tsx 371-375)
FetchNoData ==
    \E i \in 1..Len(inflight) :
        /\ StoreResult(i, << >>)
        /\ lastOutcome' = "nodata"
        /\ UNCHANGED <<filters, db, gen, mounted>>
        /\ UNCHANGED runVars
        /\ UNCHANGED dashVars
        /\ UNCHANGED <<recs, aggSite, passes>>

\* the awaited query of call i reports an error or throws: the catch logs it,
\* finally sets loading to false (page.tsx 366-369, 486-490)
FetchError ==
    \E i \in 1..Len(inflight) :
        /\ inflight' = RemoveAt(inflight, i)
        /\ loading' = FALSE
        /\ lastOutcome' = "error"
        /\ UNCHANGED <<filters, properties, db, gen, mounted, shownGen>>
        /\ UNCHANGED runVars
        /\ UNCHANGED dashVars
        /\ UNCHANGED aggVars

Next == Mount \/ ChangeFilter \/ ClearFilters \/ FetchData \/ FetchNoData \/ FetchError

Spec == Init /\ [][Next]_vars

\* a step in which the call that has waited longest is answered and its rows are
\* stored: it leaves the queue, and the fetch the next render issues joins it
AnswerOldest ==
    /\ inflight # << >>
    /\ inflight' = Tail(inflight) \o <<Call(gen, filters)>>
    /\ shownGen' = inflight[1].g

\* The listing page when every query returns rows. React runs the effects of a
\* committed render, and each awaited query is answered: the call that has waited
\* longest is answered in the end, whatever the order of the answers.
NextLive == Mount \/ ChangeFilter \/ ClearFilters \/ FetchData

SpecLive ==
    Init /\ [][NextLive]_vars /\ WF_vars(Mount) /\ WF_<<inflight, shownGen>>(AnswerOldest)

(***************************************************************************)
(* Dashboard page as a state machine: init(), fetchProperties and the      *)
(* filter controls (dashboard/page.tsx)                                    *)
(***************************************************************************)
\* most filter changes on the dashboard page in one behaviour
MaxDashChanges == 2

\* stores the dashboard page may face
DashStores == {<<RowA, RowB>>, <<RowT, RowA, RowMeta>>, <<RowB, RowT, RowY>>}

\* the state after useState (dashboard/page.tsx 12-25), before the effect has run
InitDash ==
    /\ RunIdle
    /\ AggIdle
    /\ DashIdle
    /\ filters = HomeEmpty
    /\ properties = << >>
    /\ loading = TRUE
    /\ inflight = << >>
    /\ db \in DashStores
    /\ gen = 0
    /\ mounted = FALSE
    /\ shownGen = -1
    /\ lastOutcome = "none"

\* what the listing-page variables and the run variables keep on the dashboard page
DashFrame ==
    /\ UNCHANGED <<filters, inflight, db, mounted, shownGen, lastOutcome>>
    /\ UNCHANGED <<rows, fspec, site>>
    /\ UNCHANGED <<recs, aggSite, passes>>

\* A render of the page with list ps and filters d. While loading, the spinner
\* stands in for the Dashboard component; otherwise the component filters ps
\* under d, computes the statistics of the filtered list and leaves the converted
\* price in the records it keeps (dashboard/page.tsx 162-179, Dashboard 29-229)
DashRender(ps, busy, d) ==
    IF busy
    THEN /\ out' = << >>
         /\ stats' = InitialMarketStats
         /\ properties' = ps
    ELSE /\ out' = DashboardFilter(ps, d)
         /\ stats' = DashboardStats(DashboardFilter(ps, d))
         /\ properties' = [i \in 1..Len(ps) |->
                              IF DashboardKeep(ps[i], d) THEN StoreConverted(ps[i]) ELSE ps[i]]

\* the effect of the first render calls init(), which calls fetchDistricts() and
\* awaits it (dashboard/page.tsx 118-124)
DashMount ==
    /\ pc = "unmounted"
    /\ pc' = "districts"
    /\ UNCHANGED <<properties, loading, dspec, out, stats, gen, districts, fetches>>
    /\ DashFrame

\* the districts query returns rows: setDistricts of the distinct names
\* (dashboard/page.tsx 139-140; their order is not modelled)
DistrictsLoaded ==
    /\ pc = "districts"
    /\ pc' = "ready"
    /\ districts' = {DistrictOf(db[i]) : i \in {j \in 1..Len(db) : DistrictOf(db[j]) # << >>}}
    /\ UNCHANGED <<properties, loading, dspec, out, stats, gen, fetches>>
    /\ DashFrame

\* the districts query reports an error or throws: fetchDistricts logs it and
\* returns (dashboard/page.tsx 134-137, 141-143)
DistrictsFailed ==
    /\ pc = "districts"
    /\ pc' = "ready"
    /\ UNCHANGED <<properties, loading, dspec, out, stats, gen, districts, fetches>>
    /\ DashFrame

\* init() goes on after the await: fetchProperties() sets loading and issues its
\* query (dashboard/page.tsx 121, 27-46)
FetchPropertiesCalled ==
    /\ pc = "ready"
    /\ pc' = "properties"
    /\ fetches' = fetches + 1
    /\ loading' = TRUE
    /\ DashRender(properties, TRUE, dspec)
    /\ UNCHANGED <<dspec, gen, districts>>
    /\ DashFrame

\* the properties query returns rows: they are normalized and stored, loading ends
\* (dashboard/page.tsx 60-109, 113)
PropertiesLoaded ==
    /\ pc = "properties"
    /\ pc' = "idle"
    /\ loading' = FALSE
    /\ DashRender(DashboardResult(db), FALSE, dspec)
    /\ UNCHANGED <<dspec, gen, districts, fetches>>
    /\ DashFrame

\* the properties query returns neither rows nor an error (dashboard/page.tsx 53-57),
\* or it fails and the catch logs the error (110-112): the list is empty, loading ends
PropertiesMissing ==
    /\ pc = "properties"
    /\ pc' = "idle"
    /\ loading' = FALSE
    /\ DashRender(<< >>, FALSE, dspec)
    /\ UNCHANGED <<dspec, gen, districts, fetches>>
    /\ DashFrame

\* faulty variant: fetchProperties depends on the filters, so the effect runs
\* again and fetches after every change
AfterDashFilterChangeRefetch(d) ==
    /\ dspec' = d
    /\ gen' = gen + 1
    /\ pc' = "properties"
    /\ fetches' = fetches + 1
    /\ loading' = TRUE
    /\ DashRender(properties, TRUE, d)
    /\ UNCHANGED districts
    /\ DashFrame

\* handleFilterChange: setDashboardFilters(newFilters) and the render that
\* follows; fetchProperties has no dependencies, so no effect runs
\* (dashboard/page.tsx 146-148, 115, 124)
AfterDashFilterChange(d) ==
    /\ dspec' = d
    /\ gen' = gen + 1
    /\ DashRender(properties, loading, d)
    /\ UNCHANGED <<loading, pc, districts, fetches>>
    /\ DashFrame

\* onFilterChange of one control of DashboardFilters, which is on the page only
\* when loading is false (dashboard/page.tsx 162-173)
DashChangeFilter ==
    /\ pc # "unmounted"
    /\ ~loading
    /\ gen < MaxDashChanges
    /\ \E e \in DashEdits :
          /\ Edit(dspec, e) # dspec
          /\ AfterDashFilterChange(Edit(dspec, e))

NextDash ==
    \/ DashMount
    \/ DistrictsLoaded
    \/ DistrictsFailed
    \/ FetchPropertiesCalled
    \/ PropertiesLoaded
    \/ PropertiesMissing
    \/ DashChangeFilter

SpecDash == InitDash /\ [][NextDash]_vars

(***************************************************************************)
(* Construction status of a record, on the card and in the modal           *)
(* (components/PropertyCard, components/PropertyModal)                     *)
(***************************************************************************)
\* String.prototype.includes
Includes(t, sub) == \E i \in 1..(Len(t) - Len(sub) + 1) : SubSeq(t, i, i + Len(sub) - 1) = sub

\* The marks looked for in the description. The source's first mark of each pair
\* is the Cyrillic word for "act"; it is written here in Latin transliteration.
Act15Marks == {<<"a", "k", "t", " ", "1", "5">>, <<"a", "c", "t", " ", "1", "5">>}
Act14Marks == {<<"a", "k", "t", " ", "1", "4">>, <<"a", "c", "t", " ", "1", "4">>}

\* new Date(d).toLocaleDateString('bg-BG', { month: 'long', year: 'numeric' }) of
\* a date "YYYY-MM-DD": its month and year
MonthAndYear(d) == <<SubSeq(d, 6, 7), SubSeq(d, 1, 4)>>

\* property.description?.toLowerCase() || ''
DescriptionOf(r) == IF r.description = << >> THEN << >> ELSE LowerText(r.description[1])

Status(type, text, info) == << [type |-> type, text |-> text, details |-> info.act16_details] >>

\* faulty variant: the description is searched for Act 14 first
CardStatusAct14First(r) ==
    IF r.construction_info = << >> THEN << >>
    ELSE LET info == r.construction_info[1]
         IN  IF info.has_act16 = "true" THEN Status("completed", <<"With Act 16">>, info)
             ELSE IF info.act16_plan_date # << >>
             THEN Status("planned",
                         <<"Act 16 planned", MonthAndYear(info.act16_plan_date)>>, info)
             ELSE IF \E k \in Act14Marks : Includes(DescriptionOf(r), k)
             THEN Status("progress", <<"Act 14">>, info)
             ELSE IF \E k \in Act15Marks : Includes(DescriptionOf(r), k)
             THEN Status("progress", <<"Act 15">>, info)
             ELSE Status("progress", <<"Under Construction">>, info)

\* PropertyCard.getConstructionStatus (ImageSlider.tsx 97-125); null is << >>
CardStatus(r) ==
    IF r.construction_info = << >> THEN << >>
    ELSE LET info == r.construction_info[1]
         IN  IF info.has_act16 = "true" THEN Status("completed", <<"With Act 16">>, info)
             ELSE IF info.act16_plan_date # << >>
             THEN Status("planned",
                         <<"Act 16 planned", MonthAndYear(info.act16_plan_date)>>, info)
             ELSE IF \E k \in Act15Marks : Includes(DescriptionOf(r), k)
             THEN Status("progress", <<"Act 15">>, info)
             ELSE IF \E k \in Act14Marks : Includes(DescriptionOf(r), k)
             THEN Status("progress", <<"Act 14">>, info)
             ELSE Status("progress", <<"Under Construction">>, info)

\* PropertyModal.getConstructionStatus (components/PropertyModal 13-41)
ModalStatus(r) ==
    IF r.construction_info = << >> THEN << >>
    ELSE LET info == r.construction_info[1]
         IN  IF info.has_act16 = "true" THEN Status("completed", <<"With Act 16">>, info)
             ELSE IF info.act16_plan_date # << >>
             THEN Status("planned",
                         <<"Act 16 planned", MonthAndYear(info.act16_plan_date)>>, info)
             ELSE IF \E k \in Act15Marks : Includes(DescriptionOf(r), k)
             THEN Status("progress", <<"Act 15">>, info)
             ELSE IF \E k \in Act14Marks : Includes(DescriptionOf(r), k)
             THEN Status("progress", <<"Act 14">>, info)
             ELSE Status("progress", <<"Under Construction">>, info)

\* descriptions: none, empty, one act, both acts, capitals, no act
Descriptions ==
    {<< >>, << << >> >>, << <<"A", "c", "t", " ", "1", "5">> >>, << <<"A", "C", "T", " ", "1", "4">> >>,
     << <<"A", "c", "t", " ", "1", "4", ",", " ", "A", "k", "t", " ", "1", "5">> >>, << <<"A", "k", "t", " ", "1", "4">> >>, << FeatBrick >>}

\* construction_info: none, or each flag value with and without a plan date (null
\* and "" are both << >>) and with and without details
ConstructionInfos ==
    {<< >>} \cup
    {<< [has_act16 |-> a, act16_plan_date |-> d, act16_details |-> t] >> :
        a \in {"true", "false", "null"}, d \in {<< >>, Date20250630},
        t \in {<< >>, FeatBrick}}

StatusRecords ==
    {[id |-> <<"r">>, description |-> d, construction_info |-> c] :
        d \in Descriptions, c \in ConstructionInfos}

InitStatus ==
    /\ HomeIdle
    /\ AggIdle
    /\ DashIdle
    /\ \E r \in StatusRecords : rows = <<r>>
    /\ fspec = HomeEmpty
    /\ dspec = DashEmpty
    /\ site = "none"
    /\ out = << >>

\* what has computed a status of the record so far
Shown == {out[i].by : i \in 1..Len(out)}

\* a PropertyCard is rendered for the record
RenderCard ==
    /\ "card" \notin Shown
    /\ out' = Append(out, [by |-> "card", status |-> CardStatus(rows[1])])
    /\ site' = "card"
    /\ UNCHANGED <<rows, fspec, dspec>>
    /\ UNCHANGED homeVars
    /\ UNCHANGED dashVars
    /\ UNCHANGED aggVars

\* the PropertyModal is opened for the record
RenderModal ==
    /\ "modal" \notin Shown
    /\ out' = Append(out, [by |-> "modal", status |-> ModalStatus(rows[1])])
    /\ site' = "modal"
    /\ UNCHANGED <<rows, fspec, dspec>>
    /\ UNCHANGED homeVars
    /\ UNCHANGED dashVars
    /\ UNCHANGED aggVars

NextStatus == RenderCard \/ RenderModal

SpecStatus == InitStatus /\ [][NextStatus]_vars

(***************************************************************************)
(* Properties                                                              *)
(***************************************************************************)
Ids(rs) == [i \in 1..Len(rs) |-> rs[i].id]

Pos(x, xs) == CHOOSE i \in 1..Len(xs) : xs[i] = x

\* a is b with some elements left out, the others in b's order (b without repeats)
IsSubseq(a, b) ==
    /\ \A i \in 1..Len(a) : InList(a[i], b)
    /\ \A i, j \in 1..Len(a) : i < j => Pos(a[i], b) < Pos(a[j], b)

\* the specification whose only set field is k, with f's value
HomeOnly(f, k) == [HomeEmpty EXCEPT ![k] = f[k]]
DashOnly(d, k) == [DashEmpty EXCEPT ![k] = d[k]]

\* the records a page filters: everything its unfiltered fetch yields
FetchedAll == NormalizeAll(BaseQuery(rows))

\* C1: once a result fetched under a newer filter specification is displayed, no
\* result of a fetch started under an earlier specification replaces it: the
\* generation of the displayed list never goes back.
C1_StaleResultNeverStored == [][shownGen' >= shownGen]_vars

\* C2: when the fetch that completed last failed (error) or returned no data, the
\* displayed list is empty.
C2_FailedFetchShowsEmpty == lastOutcome \in {"error", "nodata"} => properties = << >>

\* the fields a specification sets
HomeSet(f) == {k \in DOMAIN f : f[k] # HomeEmpty[k]}
DashSet(d) == {k \in DOMAIN d : d[k] # DashEmpty[k]}

\* C3: on the listing page and the dashboard the output is a subsequence of the
\* fetched records in their order, and a record is in it exactly when each field
\* the specification sets, taken alone, keeps it (the set fields act as a
\* conjunction, the others remove nothing).
C3_FilterIsConjunctiveSubsequence ==
    LET all == FetchedAll
    IN  /\ site = "home" =>
              /\ IsSubseq(out, all)
              /\ \A i \in 1..Len(all) :
                    InList(all[i], out) <=>
                        \A k \in HomeSet(fspec) :
                            InList(all[i], HomeResult(rows, HomeOnly(fspec, k)))
        /\ site = "dashboard" =>
              /\ IsSubseq(out, all)
              /\ \A i \in 1..Len(all) :
                    InList(all[i], out) <=>
                        \A k \in DashSet(dspec) :
                            InList(all[i], DashboardFilter(all, DashOnly(dspec, k)))

\* a run with two active fields that keeps one record and drops one
C3_Witness ==
    /\ site = "home"
    /\ fspec.type = "flat" /\ fspec.isRenovated = "true"
    /\ Len(FetchedAll) = 2 /\ Len(out) = 1

\* C4: with every filter field empty or null the output is the fetched list itself.
C4_EmptyFilterIsIdentity ==
    /\ (site = "home" /\ fspec = HomeEmpty) => out = FetchedAll
    /\ (site = "dashboard" /\ dspec = DashEmpty) => out = FetchedAll

C4_Witness == site = "home" /\ fspec = HomeEmpty /\ Len(out) >= 2

\* the specification sets nothing but the fields ks
HomeSetsOnly(f, ks) == \A k \in DOMAIN f : k \notin ks => f[k] = HomeEmpty[k]
DashSetsOnly(d, ks) == \A k \in DOMAIN d : k \notin ks => d[k] = DashEmpty[k]

\* C5: a price filter with minimum and maximum both set to the price of a row keeps
\* that row, whatever the price (also a price that is no whole number).
C5_PriceBoundsInclusive ==
    (/\ site \in {"home", "legacy"}
     /\ HomeSetsOnly(fspec, {"minPrice", "maxPrice"})
     /\ fspec.minPrice = fspec.maxPrice)
    => \A i \in 1..Len(rows) :
          (/\ rows[i].id # MetadataId
           /\ rows[i].price_value # << >>
           /\ NumToText(rows[i].price_value[1]) = fspec.minPrice)
          => InList(rows[i].id, Ids(out))

\* C6: with the renovated, furnished or completion-certificate filter set to yes or
\* no, every retained record has that flag equal to the selected value.
C6_FlagFilterKeepsOnlyEqual ==
    /\ site = "home" =>
          \A i \in 1..Len(out) :
              /\ fspec.isRenovated # "null" => RenovatedOf(out[i]) = fspec.isRenovated
              /\ fspec.isFurnished # "null" => FurnishedOf(out[i]) = fspec.isFurnished
              /\ fspec.hasAct16 # "null" => Act16Of(out[i]) = fspec.hasAct16
    /\ site = "dashboard" =>
          \A i \in 1..Len(out) :
              /\ dspec.isRenovated # "null" => RenovatedOf(out[i]) = dspec.isRenovated
              /\ dspec.isFurnished # "null" => FurnishedOf(out[i]) = dspec.isFurnished

\* the bound a numeric filter text states
Bound(t) == ParseFloat(t)

\* C7: with a minimum or maximum area bound active, every retained record has an
\* area, and the area lies within the active bounds.
C7_AreaFilterDropsMissingArea ==
    /\ site = "home" =>
          \A i \in 1..Len(out) :
              /\ (fspec.minArea # << >> /\ Bound(fspec.minArea) # << >>) =>
                    (out[i].area_m2 # << >> /\ out[i].area_m2[1] >= Bound(fspec.minArea)[1])
              /\ (fspec.maxArea # << >> /\ Bound(fspec.maxArea) # << >>) =>
                    (out[i].area_m2 # << >> /\ out[i].area_m2[1] <= Bound(fspec.maxArea)[1])
    /\ site = "dashboard" =>
          \A i \in 1..Len(out) :
              /\ (dspec.minArea # << >> /\ Bound(dspec.minArea) # << >>) =>
                    (out[i].area_m2 # << >> /\ out[i].area_m2[1] >= Bound(dspec.minArea)[1])
              /\ (dspec.maxArea # << >> /\ Bound(dspec.maxArea) # << >>) =>
                    (out[i].area_m2 # << >> /\ out[i].area_m2[1] <= Bound(dspec.maxArea)[1])

\* sub occurs in t
Contains(t, sub) == \E i \in 0..(Len(t) - Len(sub)) : SubSeq(t, i + 1, i + Len(sub)) = sub

\* C8: with only the district filter set to T, a fetched record is retained exactly
\* when its district contains T ("Lozenets" keeps "Lozenets" and "Lozenets 2",
\* drops "Mladost").
C8_DistrictFilterIsSubstringMatch ==
    LET stored == BaseQuery(rows)
    IN  /\ (site = "home" /\ fspec.district # << >> /\ HomeSetsOnly(fspec, {"district"})) =>
              \A i \in 1..Len(stored) :
                  InList(stored[i].id, Ids(out))
                      <=> Contains(DistrictOf(stored[i]), fspec.district)
        /\ (site = "dashboard" /\ dspec.district # << >> /\ DashSetsOnly(dspec, {"district"})) =>
              \A i \in 1..Len(FetchedAll) :
                  InList(FetchedAll[i], out)
                      <=> Contains(DistrictOf(FetchedAll[i]), dspec.district)

\* year y lies within the bounds the texts lo and hi state (an empty text: no bound)
YearWithin(y, lo, hi) ==
    /\ (lo # << >> /\ Bound(lo) # << >>) => y >= Bound(lo)[1]
    /\ (hi # << >> /\ Bound(hi) # << >>) => y <= Bound(hi)[1]

\* the year policy: a record without a year is kept, one with a year is kept
\* exactly when the year lies within the bounds
YearPolicy(lo, hi) ==
    \A i \in 1..Len(rows) :
        rows[i].id # MetadataId =>
            IF YearOf(rows[i]) = << >> THEN InList(rows[i].id, Ids(out))
            ELSE InList(rows[i].id, Ids(out)) <=> YearWithin(YearOf(rows[i])[1], lo, hi)

\* C9: with a construction-year bound active (and nothing else set), every call
\* site - both listing pages and the dashboard - follows the same year policy.
C9_YearPolicyAtEveryCallSite ==
    /\ (/\ site \in {"home", "legacy"}
        /\ HomeSet(fspec) # {}
        /\ HomeSetsOnly(fspec, {"minYear", "maxYear"}))
       => YearPolicy(fspec.minYear, fspec.maxYear)
    /\ (/\ site = "dashboard"
        /\ DashSet(dspec) # {}
        /\ DashSetsOnly(dspec, {"minYear", "maxYear"}))
       => YearPolicy(dspec.minYear, dspec.maxYear)

\* calendar order of two "YYYY-MM-DD" texts: the order of their digits, left to right
IsoLeq(a, b) ==
    \/ a = b
    \/ \E i \in 1..Len(a) :
          /\ SubSeq(a, 1, i - 1) = SubSeq(b, 1, i - 1)
          /\ IsDigit(a[i]) /\ IsDigit(b[i]) /\ DigitVal(a[i]) < DigitVal(b[i])

\* C10: with a planned-completion bound active (and nothing else set) on the
\* listing page, a record without planned date is kept, and a record with one is
\* kept exactly when from <= date and date <= to for the bounds that are set.
C10_PlanDateRangeInclusive ==
    (/\ site = "home"
     /\ HomeSet(fspec) # {}
     /\ HomeSetsOnly(fspec, {"minAct16Date", "maxAct16Date"}))
    => \A i \in 1..Len(rows) :
          rows[i].id # MetadataId =>
              IF PlanDateOf(rows[i]) = << >> THEN InList(rows[i].id, Ids(out))
              ELSE InList(rows[i].id, Ids(out)) <=>
                      /\ fspec.minAct16Date # << >> => IsoLeq(fspec.minAct16Date, PlanDateOf(rows[i]))
                      /\ fspec.maxAct16Date # << >> => IsoLeq(PlanDateOf(rows[i]), fspec.maxAct16Date)

\* from = to = the planned date of a record: it is kept, a later-dated one is dropped
C10_Witness ==
    /\ site = "home"
    /\ fspec = Edit(Edit(HomeEmpty, <<"minAct16Date", Date20250630>>),
                    <<"maxAct16Date", Date20250630>>)
    /\ InList(RowB, rows) /\ InList(RowD, rows)
    /\ InList(RowB.id, Ids(out)) /\ ~InList(RowD.id, Ids(out))

\* the numeric text fields of the two filter specifications
NumericHomeFields == {"minPrice", "maxPrice", "minArea", "maxArea", "minYear", "maxYear"}
NumericDashFields == {"minYear", "maxYear", "minArea", "maxArea"}

\* a text that is not a numeral: some character is neither a digit nor the point
NonNumericText(t) == \E i \in 1..Len(t) : ~(IsDigit(t[i]) \/ t[i] = ".")

\* C11: on the listing page and the dashboard a numeric filter field that holds
\* non-numeric text acts as the empty field: the output is the output of the same
\* specification with that field cleared.
C11_NonNumericFieldIsInactive ==
    /\ site = "home" =>
          \A k \in NumericHomeFields :
              NonNumericText(fspec[k]) => out = HomeResult(rows, [fspec EXCEPT ![k] = << >>])
    /\ site = "dashboard" =>
          \A k \in NumericDashFields :
              NonNumericText(dspec[k]) =>
                  out = DashboardFilter(DashboardResult(rows), [dspec EXCEPT ![k] = << >>])

\* the entries of a comma-separated text: the pieces between commas, trimmed,
\* the empty ones left out
ListedIds(t) ==
    {Trim(SubSeq(t, i, j)) : <<i, j>> \in
        {p \in (1..(Len(t) + 1)) \X (0..Len(t)) :
            /\ p[2] >= p[1] - 1
            /\ (p[1] = 1 \/ t[p[1] - 1] = ",")
            /\ (p[2] = Len(t) \/ t[p[2] + 1] = ",")
            /\ \A m \in p[1]..p[2] : t[m] # ","}} \ {<< >>}

\* C12: with only the id allow-list set, the listing page keeps exactly the fetched
\* records whose id is an entry of the list, in order, and every fetched record
\* when the list has no entry.
C12_IdAllowList ==
    (site = "home" /\ HomeSetsOnly(fspec, {"propertyIds"}))
    => LET ids == ListedIds(fspec.propertyIds)
           all == FetchedAll
       IN  IF ids = {} THEN out = all
           ELSE out = SelectSeq(all, LAMBDA r : r.id \in ids)

\* the list "a, c" keeps record c, whose entry needs trimming, and drops record b
C12_Witness ==
    /\ site = "home"
    /\ fspec = Edit(HomeEmpty, <<"propertyIds", <<"a", ",", " ", "c">>>>)
    /\ InList(RowC, rows) /\ InList(RowB, rows)
    /\ Ids(out) = << <<"c">> >>

(***************************************************************************)
(* Statistics                                                              *)
(***************************************************************************)
\* the records the statistics of the state were computed from: the whole list on
\* the listing page, the filtered list on the dashboard
Aggregated ==
    IF aggSite = "dashboard" THEN DashboardFilter(recs, dspec) ELSE recs

\* a district that begins with a year of the form 20dd
YearLike(d) == Len(d) >= 4 /\ SubSeq(d, 1, 2) = <<"2", "0">> /\ IsDigit(d[3]) /\ IsDigit(d[4])

\* the validity of a record: its price, a string read as a number, is present,
\* numeric and above zero, and its district is no year
CountsAsValid(r) ==
    LET v == CoercePrice(r.price_value)
    IN  /\ v # << >>
        /\ (v = NumInfinity \/ v[1] > 0)
        /\ ~YearLike(DistrictOf(r))

ValidOnes == SelectSeq(Aggregated, CountsAsValid)

\* C13: the reported count is the number of valid records of the list.
C13_CountIsNumberOfValidRecords ==
    /\ aggSite = "home" => stats.totalProperties = Len(ValidOnes)
    /\ aggSite = "dashboard" => stats.validCount = Len(ValidOnes)

\* a valid record and one with a valid price whose district is a year: count 1
C13_Witness ==
    /\ aggSite = "home"
    /\ Ids(recs) = << RowA.id, RowY.id >>
    /\ stats.totalProperties = 1

\* the price of a valid record in units, a / b as a fraction
ValueOf(r) ==
    LET v == CoercePrice(r.price_value)
    IN  IF v = NumInfinity THEN Infinity ELSE Rat(v[1], 10)

RECURSIVE Total(_)
Total(xs) == IF xs = << >> THEN Zero ELSE Plus(Head(xs), Total(Tail(xs)))

\* the arithmetic mean of a list of numbers, 0 for the empty list
Mean(xs) == IF xs = << >> THEN Zero ELSE Over(Total(xs), Len(xs))

MeanPrice == Mean([i \in 1..Len(ValidOnes) |-> ValueOf(ValidOnes[i])])

\* w is x rounded to the nearest whole number, halves upwards (Infinity stays)
IsRounded(w, x) ==
    IF x.d = 0 THEN w = x
    ELSE w.d = 1 /\ 2 * w.n * x.d - x.d <= 2 * x.n /\ 2 * x.n < 2 * w.n * x.d + x.d

\* C14 as stated: both pages report the arithmetic mean of the valid records'
\* prices, 0 when there is none, and so the same number for the same list.
C14_MeanPriceIsArithmeticMean ==
    /\ aggSite = "home" =>
          /\ stats.avgPrice = MeanPrice
          /\ stats.avgPrice = DashboardStats(recs).averagePrice
    /\ aggSite = "dashboard" => stats.averagePrice = MeanPrice

\* C14 amended: the dashboard's mean price is the arithmetic mean of the valid
\* records' prices; the listing page reports that mean rounded to the nearest whole
\* number; both are 0 when there is no valid record.
C14_MeanPriceRoundedOnListingPage ==
    /\ aggSite = "home" =>
          /\ IsRounded(stats.avgPrice, MeanPrice)
          /\ IsRounded(stats.avgPrice, DashboardStats(recs).averagePrice)
    /\ aggSite = "dashboard" => stats.averagePrice = MeanPrice
    /\ (aggSite = "home" /\ ValidOnes = << >>) => stats.avgPrice = Zero
    /\ (aggSite = "dashboard" /\ ValidOnes = << >>) => stats.averagePrice = Zero

\* a list whose mean price is no whole number: the listing page reports another number
C14_Witness ==
    /\ aggSite = "home"
    /\ Len(ValidOnes) = 2 /\ Len(recs) = 3
    /\ MeanPrice.d > 1
    /\ stats.avgPrice # MeanPrice

\* the valid records that have an area above zero
WithArea == SelectSeq(ValidOnes, LAMBDA r : r.area_m2 # << >> /\ r.area_m2[1] > 0)

\* price / area of such a record
RatioOf(r) ==
    LET v == CoercePrice(r.price_value)
    IN  IF v = NumInfinity THEN Infinity ELSE Rat(v[1], r.area_m2[1])

MeanPricePerArea == Mean([i \in 1..Len(WithArea) |-> RatioOf(WithArea[i])])

\* C15 as stated: the mean price per area is the mean of price / area over the valid
\* records with an area above zero; the other records do not affect it.
C15_MeanPricePerAreaIsMeanOfRatios ==
    /\ aggSite = "home" => stats.avgPricePerM2 = MeanPricePerArea
    /\ aggSite = "dashboard" => stats.averagePricePerSqm = MeanPricePerArea

\* C15 amended: the dashboard's mean price per area is the mean of price / area over
\* the valid records with an area above zero; the listing page reports that mean
\* rounded to the nearest whole number; the other records do not affect it.
C15_MeanPricePerAreaRoundedOnListingPage ==
    /\ aggSite = "home" => IsRounded(stats.avgPricePerM2, MeanPricePerArea)
    /\ aggSite = "dashboard" => stats.averagePricePerSqm = MeanPricePerArea

\* two valid records with an area and one without: the mean of the two ratios
\* differs from total price over total area
C15_Witness ==
    /\ aggSite = "dashboard"
    /\ dspec = DashEmpty
    /\ Ids(recs) = << RowA.id, RowB.id, RowT.id >>
    /\ Len(WithArea) = 2 /\ Len(ValidOnes) = 3
    /\ stats.averagePricePerSqm = Rat(201 * 2 + 15 * 100, 400)
    /\ stats.averagePricePerSqm # Rat(1005 + 3000, 500 + 400)

\* every number of the statistics
Numbers ==
    IF aggSite = "home"
    THEN {stats.avgPrice, stats.avgPricePerM2, stats.avgPriceWithAct16,
          stats.avgPriceWithoutAct16, stats.avgPriceRenovated}
    ELSE {stats.averagePrice, stats.averagePricePerSqm, stats.averagePriceWithAct16,
          stats.averagePriceWithoutAct16, stats.averagePriceRenovated}
         \cup UNION {{stats.propertyTypeStatsArray[i].average,
                      stats.propertyTypeStatsArray[i].min,
                      stats.propertyTypeStatsArray[i].max} :
                     i \in 1..Len(stats.propertyTypeStatsArray)}

\* C16: after the statistics are computed every number of them is finite, and with
\* no valid record the count, the mean price and the mean price per area are 0.
C16_EveryStatisticIsFinite ==
    aggSite # "none" =>
        /\ \A x \in Numbers : x.d # 0
        /\ ValidOnes = << >> =>
              IF aggSite = "home"
              THEN /\ stats.totalProperties = 0
                   /\ stats.avgPrice = Zero /\ stats.avgPricePerM2 = Zero
              ELSE /\ stats.validCount = 0
                   /\ stats.averagePrice = Zero /\ stats.averagePricePerSqm = Zero

\* the valid records of a category
OfType(t) == SelectSeq(ValidOnes, LAMBDA r : r.type = t)

Values(rs) == [i \in 1..Len(rs) |-> ValueOf(rs[i])]

\* a <= b
AtMost(a, b) == ~Greater(a, b)

\* the categories of the valid records ("" is no category)
Categories == {ValidOnes[i].type : i \in 1..Len(ValidOnes)} \ {""}

\* record i of the valid ones is handled before record j when the partitions are
\* built: the dearer first, and of two equally dear the earlier of the list
HandledBefore(i, j) ==
    \/ Greater(ValueOf(ValidOnes[i]), ValueOf(ValidOnes[j]))
    \/ ValueOf(ValidOnes[i]) = ValueOf(ValidOnes[j]) /\ i < j

\* the partition of category t is inserted before the partition of category u
InsertedBefore(t, u) ==
    \E i \in 1..Len(ValidOnes) :
        /\ ValidOnes[i].type = t
        /\ \A j \in 1..Len(ValidOnes) : ValidOnes[j].type = u => HandledBefore(i, j)

\* C17: the dashboard lists one partition per category of the valid records; its
\* count, mean, minimum and maximum are those of exactly the valid records of the
\* category (so count >= 1 and min <= mean <= max); the partitions are listed by
\* descending count, those of equal count in the order they were inserted.
C17_CategoryStatistics ==
    aggSite = "dashboard" =>
        LET arr == stats.propertyTypeStatsArray
        IN  /\ {arr[i].type : i \in 1..Len(arr)} = Categories
            /\ Len(arr) = Cardinality(Categories)
            /\ \A i \in 1..Len(arr) :
                  LET vs == Values(OfType(arr[i].type))
                  IN  /\ arr[i].count = Len(vs) /\ arr[i].count >= 1
                      /\ arr[i].average = Mean(vs)
                      /\ \E k \in 1..Len(vs) : vs[k] = arr[i].min
                      /\ \E k \in 1..Len(vs) : vs[k] = arr[i].max
                      /\ \A k \in 1..Len(vs) : AtMost(arr[i].min, vs[k]) /\ AtMost(vs[k], arr[i].max)
                      /\ AtMost(arr[i].min, arr[i].average)
                      /\ AtMost(arr[i].average, arr[i].max)
            /\ \A i, j \in 1..Len(arr) :
                  i < j => \/ arr[i].count > arr[j].count
                           \/ /\ arr[i].count = arr[j].count
                              /\ InsertedBefore(arr[i].type, arr[j].type)

\* two categories of one valid record each, and a valid record without category:
\* the dearer category's partition was inserted first and is listed first
C17_Witness ==
    /\ aggSite = "dashboard"
    /\ dspec = DashEmpty
    /\ Ids(recs) = << RowA.id, RowS.id, RowT.id >>
    /\ Len(ValidOnes) = 3
    /\ [i \in 1..Len(stats.propertyTypeStatsArray) |-> stats.propertyTypeStatsArray[i].type]
          = <<"house", "flat">>

\* C18: computing the statistics never changes the order of the record list, and
\* computing them again from the same list changes neither a record nor a number
\* of the statistics (a string price converted once stays as it is).
C18_AggregationIsRepeatable ==
    [][/\ Ids(recs') = Ids(recs)
       /\ passes >= 1 => (recs' = recs /\ stats' = stats)]_vars

\* the statistics were computed twice from a list with a converted string price
C18_Witness ==
    /\ passes = 2
    /\ Len(recs) = 3
    /\ \E i \in 1..Len(recs) : recs[i].id = RowS.id /\ recs[i].price_value = <<2505>>
    /\ \E i \in 1..Len(recs) : recs[i].id = RowN.id
    /\ recs[1].id = RowN.id

(***************************************************************************)
(* Normalizer                                                              *)
(***************************************************************************)
\* the stored row a record of the output was made from
RawOf(id) == CHOOSE r \in {rows[i] : i \in 1..Len(rows)} : r.id = id

\* the images of a stored row, none when the relation is null
RawImages(r) == IF r.images = << >> THEN << >> ELSE r.images[1]

\* the position an image is ordered by
EffectivePosition(img) == IF img.position = << >> THEN 0 ELSE img.position[1]

\* C19: on the listing page and the dashboard every record's images are the stored
\* row's images (none added, none lost; none when the row has images = null),
\* ascending by position with null as 0, images of equal position in their stored
\* order.
C19_ImagesSortedByPosition ==
    site \in {"home", "dashboard"} =>
        \A i \in 1..Len(out) :
            LET raw  == RawImages(RawOf(out[i].id))
                imgs == out[i].images
            IN  /\ Len(imgs) = Len(raw)
                /\ \A k \in 1..Len(raw) : InList(raw[k], imgs)
                /\ \A a, b \in 1..Len(imgs) :
                      a < b =>
                         \/ EffectivePosition(imgs[a]) < EffectivePosition(imgs[b])
                         \/ /\ EffectivePosition(imgs[a]) = EffectivePosition(imgs[b])
                            /\ Pos(imgs[a], raw) < Pos(imgs[b], raw)

\* a record with positions 3, null, 1, 0 and a record with images = null
C19_Witness ==
    /\ site = "home"
    /\ fspec = HomeEmpty
    /\ rows = <<RowA, RowB>>
    /\ [k \in 1..Len(out[1].images) |-> out[1].images[k].url] = <<"u0", "uz", "u1", "u3">>
    /\ out[2].images = << >>

\* C20: normalizing a normalized record completes without error and returns the
\* record unchanged.
C20_NormalizeIsIdempotent ==
    site = "twice" =>
        \A i \in 1..Len(out) :
            /\ ~out[i].threw
            /\ out[i].value = Normalize(BaseQuery(rows)[i])

(***************************************************************************)
(* Normalizer claims: one fetched row rows[1], its normalized record out[1] *)
(***************************************************************************)
Normalized == site \in {"home", "dashboard"} /\ Len(rows) = 1 /\ Len(out) = 1

RawRow == rows[1]

NormRow == out[1]

\* the texts of the fetched row's features, in stored order
Texts == UnwrapFeatures(RawRow.features)

\* C21: a price, area or district that is not null in the fetched row (a price or
\* area of 0 included) is the normalized record's price, area or district,
\* whatever the features say.
C21_PresentFieldsAreKept ==
    Normalized =>
        /\ RawRow.price_value # << >> => NormRow.price_value = RawRow.price_value
        /\ RawRow.area_m2 # << >> => NormRow.area_m2 = RawRow.area_m2
        /\ DistrictOf(RawRow) # << >> => DistrictOf(NormRow) = DistrictOf(RawRow)

\* the first text of ts that passes Test, 0 when none does
First(ts, Test(_)) ==
    IF \E i \in 1..Len(ts) : Test(ts[i])
    THEN CHOOSE i \in 1..Len(ts) : Test(ts[i]) /\ \A j \in 1..(i - 1) : ~Test(ts[j])
    ELSE 0

MentionsPrice(t) == PriceMatch(t) # << >>

MentionsArea(t) == AreaMatch(t) # << >>

\* the part of t before its first comma or line break, trimmed
LeadingRun(t) ==
    LET cuts == {k \in 1..Len(t) : t[k] \in {",", "\n"}}
        cut  == IF cuts = {} THEN Len(t) + 1
                ELSE CHOOSE k \in cuts : \A j \in cuts : k <= j
    IN  Trim(SubSeq(t, 1, cut - 1))

NamesDistrict(t) == Len(t) < MaxDistrictFeatureLen /\ LeadingRun(t) # << >>

\* the district the features supply: that of the first short feature that names one
RecoveredDistrict ==
    IF First(Texts, NamesDistrict) = 0 THEN << >>
    ELSE LeadingRun(Texts[First(Texts, NamesDistrict)])

\* C22: a field missing from the fetched row takes the value of the earliest
\* feature that matches its pattern; later features do not change it.
C22_FirstMatchWins ==
    Normalized =>
        /\ (RawRow.price_value = << >> /\ First(Texts, MentionsPrice) # 0) =>
              NormRow.price_value =
                  PriceOfMatch(PriceMatch(Texts[First(Texts, MentionsPrice)])[1])
        /\ (RawRow.area_m2 = << >> /\ First(Texts, MentionsArea) # 0) =>
              NormRow.area_m2 = ParseFloat(AreaMatch(Texts[First(Texts, MentionsArea)])[1])
        /\ (RawRow.location = << >> /\ First(Texts, NamesDistrict) # 0) =>
              DistrictOf(NormRow) = LeadingRun(Texts[First(Texts, NamesDistrict)])

\* C23: without a location relation the normalized record gets a location made
\* of the recovered district alone (no city), none when no district was
\* recovered; a location relation that is present is passed through unchanged.
C23_LocationSynthesis ==
    Normalized =>
        /\ RawRow.location # << >> => NormRow.location = RawRow.location
        /\ (RawRow.location = << >> /\ RecoveredDistrict # << >>) =>
              /\ NormRow.location # << >>
              /\ DOMAIN NormRow.location[1] = {"district"}
              /\ NormRow.location[1].district = RecoveredDistrict
        /\ (RawRow.location = << >> /\ RecoveredDistrict = << >>) => NormRow.location = << >>

\* C23 witness: a row without location whose features name a district, normalized
C23_Witness ==
    /\ Normalized
    /\ RawRow.location = << >>
    /\ Texts = <<FeatBrick, FeatDistrict>>
    /\ NormRow.location = << [district |-> FeatBrick] >>

\* C24: the fallback district comes only from a feature shorter than 50
\* characters and is that feature's text before the first comma or line break,
\* trimmed; a feature of 50 characters or more never supplies it.
C24_DistrictFromShortFeature ==
    Normalized /\ RawRow.location = << >> =>
        /\ \/ NormRow.location = << >>
           \/ \E i \in 1..Len(Texts) :
                 /\ Len(Texts[i]) < 50
                 /\ DistrictOf(NormRow) = LeadingRun(Texts[i])
        /\ (\E i \in 1..Len(Texts) : Len(Texts[i]) < 50 /\ LeadingRun(Texts[i]) # << >>)
              => NormRow.location # << >>

\* C24 witness: a feature of 50 characters is passed over, one of 49 supplies
\* the district
C24_Witness ==
    /\ Normalized
    /\ RawRow.location = << >>
    /\ Texts = <<FeatLong, FeatAlmostLong>>
    /\ Len(FeatLong) = 50 /\ Len(FeatAlmostLong) = 49
    /\ DistrictOf(NormRow) = Lozenets2

EurMark == <<"E", "U", "R">>

\* the last position up to k that holds no white space, 0 when there is none
RECURSIVE LastNonSpace(_, _)
LastNonSpace(t, k) ==
    IF k = 0 THEN 0 ELSE IF IsSpace(t[k]) THEN LastNonSpace(t, k - 1) ELSE k

\* the first position of the run of digits that ends at k
RECURSIVE RunStart(_, _)
RunStart(t, k) == IF k > 1 /\ IsDigit(t[k - 1]) THEN RunStart(t, k - 1) ELSE k

\* where EUR follows a digit, white space allowed in between
PricedAt(t) ==
    {e \in 1..(Len(t) - 2) :
        /\ SubSeq(t, e, e + 2) = EurMark
        /\ LastNonSpace(t, e - 1) > 0
        /\ IsDigit(t[LastNonSpace(t, e - 1)])}

\* The first position of the decimal number whose leading group is t[s..e]: a
\* group of three digits continues a group of up to three digits that one blank
\* separates from it ("120 000"); anything else before it is a separate number.
RECURSIVE NumberStart(_, _, _)
NumberStart(t, s, e) ==
    IF /\ e - s + 1 = 3
       /\ s > 2
       /\ t[s - 1] = " "
       /\ IsDigit(t[s - 2])
       /\ (s - 2) - RunStart(t, s - 2) + 1 <= 3
    THEN NumberStart(t, RunStart(t, s - 2), s - 2)
    ELSE s

\* the price a text states: the first decimal number that EUR follows
StatedPrice(t) ==
    IF PricedAt(t) = {} THEN << >>
    ELSE LET e == CHOOSE x \in PricedAt(t) : \A y \in PricedAt(t) : x <= y
             k == LastNonSpace(t, e - 1)
             s == NumberStart(t, RunStart(t, k), k)
         IN  << Whole(DigitsValue(SelectSeq(SubSeq(t, s, k), IsDigit))) >>

\* C25: the fallback price of a row with one feature is the first decimal number
\* that EUR follows, the blanks inside its digit group removed: "120000 EUR" and
\* "120 000 EUR" give 120000, and the digits of an earlier, separate number are
\* not merged into it.
C25_PriceIsNumberBeforeEur ==
    Normalized /\ RawRow.price_value = << >> /\ Len(Texts) = 1 =>
        NormRow.price_value = StatedPrice(Texts[1])

(***************************************************************************)
(* Listing page claims: fetches and the loading indicator                  *)
(***************************************************************************)
\* a step in which a fetch completes: neither the mount nor a filter change
Completion == mounted' = mounted /\ gen' = gen

\* C26: with the filters fixed, a fetch that completes issues no further fetch:
\* storing its result leaves one fetch fewer in flight, so only finitely many
\* fetches are issued.
C26_StoringResultIssuesNoFetch == [][Completion => Len(inflight') < Len(inflight)]_vars

\* C27: the loading indicator is true whenever a fetch is in flight; it is false
\* only when none remains.
C27_LoadingWhileFetchInFlight == inflight # << >> => loading

\* the page shows the result of a fetch under the filters in force, with its statistics
ShowsLatest ==
    /\ mounted
    /\ shownGen = gen
    /\ properties = HomeResult(db, filters)
    /\ stats = HomeMarketStats(properties)

\* C28: when the filters stop changing and every fetch succeeds, from some moment
\* on the displayed list is the result of a fetch under the latest filters and
\* the market statistics are the aggregation of that list.
C28_EventuallyShowsLatest == <>[]ShowsLatest

\* C28 witness: after a filter change the page shows a non-empty result of the
\* latest filters with its statistics, and only fetches of those are in flight
C28_Witness ==
    /\ ShowsLatest
    /\ gen >= 1
    /\ properties # << >>
    /\ stats.totalProperties >= 1
    /\ \A i \in 1..Len(inflight) : inflight[i].g = gen

(***************************************************************************)
(* Dashboard page claims                                                   *)
(***************************************************************************)
\* C29: on the dashboard page a change of the filters issues no fetch and leaves
\* the list as it is; the list is fetched once per mount, and only after the
\* district fetch has finished, with or without success; the filtered set and
\* the statistics on the page are those of the list under the filters in force.
C29_DashboardFiltersAreClientSide ==
    [][/\ dspec' # dspec => (fetches' = fetches /\ pc' = pc /\ properties' = properties)
       /\ fetches' # fetches => (fetches = 0 /\ fetches' = 1 /\ pc = "ready")
       /\ pc' = "ready" => pc \in {"districts", "ready"}
       /\ ~loading' => /\ out' = DashboardFilter(properties', dspec')
                       /\ stats' = DashboardStats(out')]_vars

\* C29 witness: the district fetch failed, the list was fetched once, and the
\* filters were changed twice over the fetched list
C29_Witness ==
    /\ pc = "idle"
    /\ districts = {}
    /\ fetches = 1
    /\ gen = 2
    /\ properties # << >>
    /\ Len(out) < Len(properties)

(***************************************************************************)
(* Construction status claims                                              *)
(***************************************************************************)
\* the record mentions the act numbered n, in either spelling and any case
MentionsAct(r, n) ==
    /\ r.description # << >>
    /\ \E w \in {<<"a", "k", "t">>, <<"a", "c", "t">>} :
          Contains(LowerText(r.description[1]), w \o <<" ", "1", n>>)

\* the status the precedence rule gives a record, "none" for no status
StatusByRule(r) ==
    IF r.construction_info = << >> THEN "none"
    ELSE IF r.construction_info[1].has_act16 = "true" THEN "With Act 16"
    ELSE IF r.construction_info[1].act16_plan_date # << >> THEN "Act 16 planned"
    ELSE IF MentionsAct(r, "5") THEN "Act 15"
    ELSE IF MentionsAct(r, "4") THEN "Act 14"
    ELSE "Under Construction"

StatusText(s) == IF s = << >> THEN "none" ELSE s[1].text[1]

\* C30: the card and the modal each give a record the status of the precedence
\* rule (no construction info: none; Act 16 held; Act 16 planned; Act 15; Act 14;
\* under construction), hence the same status.
C30_StatusPrecedence ==
    (site \in {"card", "modal"} /\ Len(rows) = 1) =>
        /\ \A i \in 1..Len(out) : StatusText(out[i].status) = StatusByRule(rows[1])
        /\ \A i, j \in 1..Len(out) : out[i].status = out[j].status

\* C30 witness: card and modal have both shown a record without Act 16 or plan
\* date whose description mentions Act 14 and Act 15
C30_Witness ==
    /\ site \in {"card", "modal"}
    /\ Shown = {"card", "modal"}
    /\ rows[1].construction_info # << >>
    /\ MentionsAct(rows[1], "4") /\ MentionsAct(rows[1], "5")
    /\ \A i \in 1..Len(out) : StatusText(out[i].status) = "Act 15"

====
